---------------------------- MODULE Spec2Model ----------------------------
(***************************************************************************)
(* A model of the security / session layer of the BBS: SecurityValidator,  *)
(* RateLimiter and BBSDatabase (src/secure_bbs.py), the web session state  *)
(* machine WebBBSSession and its WebBBSManager (src/bbs_web.py), the       *)
(* socket.io handlers that drive them (src/app.py) and the socket session  *)
(* BBSSession (src/secure_bbs.py).                                         *)
(*                                                                         *)
(* Text is a sequence of characters; a character is a one-letter string,   *)
(* or a name such as "NUL" or "LF" for a character that has no letter.     *)
(***************************************************************************)
EXTENDS Integers, Sequences, FiniteSets, TLC

(***************************************************************************)
(* Characters                                                              *)
(***************************************************************************)
UpperSeq ==
    << "A", "B", "C", "D", "E", "F", "G", "H", "I", "J", "K", "L", "M",
       "N", "O", "P", "Q", "R", "S", "T", "U", "V", "W", "X", "Y", "Z" >>

LowerSeq ==
    << "a", "b", "c", "d", "e", "f", "g", "h", "i", "j", "k", "l", "m",
       "n", "o", "p", "q", "r", "s", "t", "u", "v", "w", "x", "y", "z" >>

UpperChars == { UpperSeq[i] : i \in 1..26 }

LowerChars == { LowerSeq[i] : i \in 1..26 }

DigitChars == { "0", "1", "2", "3", "4", "5", "6", "7", "8", "9" }

\* [a-zA-Z0-9_], the class \w of the patterns
WordChars == UpperChars \cup LowerChars \cup DigitChars \cup { "_" }

\* the characters sanitize_text removes: [\x00-\x08\x0B\x0C\x0E-\x1F\x7F]
ControlChars == { "NUL", "BEL", "BS", "VT", "FF", "ESC", "DEL" }

\* what str.strip() and \s take for white space once the control characters are gone
SpaceChars == { " ", "TAB", "LF", "CR" }

\* the special characters of validate_password
SpecialChars ==
    { "!", "@", "#", "$", "%", "^", "&", "*", "(", ")", "_", "+", "-", "=",
      "[", "]", "{", "}", "|", ";", ":", ",", ".", "<", ">", "?" }

\* str.lower() / str.upper() of one character
LowerChar(c) ==
    IF c \in UpperChars
    THEN LowerSeq[CHOOSE i \in 1..26 : UpperSeq[i] = c]
    ELSE c

UpperChar(c) ==
    IF c \in LowerChars
    THEN UpperSeq[CHOOSE i \in 1..26 : LowerSeq[i] = c]
    ELSE c

(***************************************************************************)
(* Text                                                                    *)
(***************************************************************************)
lower(s) == [i \in 1..Len(s) |-> LowerChar(s[i])]

upper(s) == [i \in 1..Len(s) |-> UpperChar(s[i])]

\* s[:n]
Prefix(s, n) == SubSeq(s, 1, IF n < Len(s) THEN n ELSE Len(s))

\* str.strip()
strip(s) ==
    LET keep == { i \in 1..Len(s) : s[i] \notin SpaceChars }
    IN  IF keep = {} THEN << >>
        ELSE LET lo == CHOOSE i \in keep : \A j \in keep : i <= j
                 hi == CHOOSE i \in keep : \A j \in keep : j <= i
             IN  SubSeq(s, lo, hi)

\* re.sub(pattern, '', text) for a pattern that is one character class
RECURSIVE RemoveChars(_, _)
RemoveChars(s, cls) ==
    IF s = << >> THEN << >>
    ELSE IF Len(s) = 1 THEN IF s[1] \in cls THEN << >> ELSE s
    ELSE LET half == Len(s) \div 2
         IN  RemoveChars(SubSeq(s, 1, half), cls)
                \o RemoveChars(SubSeq(s, half + 1, Len(s)), cls)

\* pat occurs in s at position i
MatchAt(s, i, pat) ==
    /\ i >= 1
    /\ i + Len(pat) - 1 <= Len(s)
    /\ SubSeq(s, i, i + Len(pat) - 1) = pat

Contains(s, pat) == \E i \in 1..Len(s) : MatchAt(s, i, pat)

\* html.escape(text), quote = True
EscapeChar(c) ==
    CASE c = "&"  -> << "&", "a", "m", "p", ";" >>
      [] c = "<"  -> << "&", "l", "t", ";" >>
      [] c = ">"  -> << "&", "g", "t", ";" >>
      [] c = "\"" -> << "&", "q", "u", "o", "t", ";" >>
      [] c = "'"  -> << "&", "#", "x", "2", "7", ";" >>
      [] OTHER    -> << c >>

RECURSIVE html_escape(_)
html_escape(s) ==
    IF s = << >> THEN << >>
    ELSE IF Len(s) = 1 THEN EscapeChar(s[1])
    ELSE LET half == Len(s) \div 2
         IN  html_escape(SubSeq(s, 1, half)) \o html_escape(SubSeq(s, half + 1, Len(s)))

(***************************************************************************)
(* SecurityValidator                                                       *)
(***************************************************************************)
MAX_USERNAME == 20

MIN_USERNAME == 3

MAX_PASSWORD == 128

MIN_PASSWORD == 8

MAX_REALNAME == 50

MAX_LOCATION == 50

MAX_COMMANDS_PER_MINUTE == 30

MAX_LOGIN_ATTEMPTS == 5

LOCKOUT_DURATION == 300

\* the sentinel sanitize_text returns for text that matches a banned pattern
FILTERED ==
    << "[", "C", "O", "N", "T", "E", "N", "T", " ",
       "F", "I", "L", "T", "E", "R", "E", "D", "]" >>

\* <script[^>]*>.*?</script>  (t is lower case; "." does not match a line feed)
ScriptTagAt(t, i) ==
    /\ MatchAt(t, i, << "<", "s", "c", "r", "i", "p", "t" >>)
    /\ \E j \in (i + 7)..Len(t) :
          /\ t[j] = ">"
          /\ \A m \in (i + 7)..(j - 1) : t[m] # ">"
          /\ \E k \in (j + 1)..Len(t) :
                /\ MatchAt(t, k, << "<", "/", "s", "c", "r", "i", "p", "t", ">" >>)
                /\ \A m \in (j + 1)..(k - 1) : t[m] # "LF"

\* on\w+\s*=
EventHandlerAt(t, i) ==
    /\ MatchAt(t, i, << "o", "n" >>)
    /\ \E j \in (i + 3)..Len(t) :
          /\ t[j] = "="
          /\ \E w \in (i + 2)..(j - 1) :
                /\ \A m \in (i + 2)..w : t[m] \in WordChars
                /\ \A m \in (w + 1)..(j - 1) : t[m] \in SpaceChars

SqlKeywords ==
    { << "u", "n", "i", "o", "n" >>, << "s", "e", "l", "e", "c", "t" >>,
      << "i", "n", "s", "e", "r", "t" >>, << "u", "p", "d", "a", "t", "e" >>,
      << "d", "e", "l", "e", "t", "e" >>, << "d", "r", "o", "p" >>,
      << "c", "r", "e", "a", "t", "e" >>, << "a", "l", "t", "e", "r" >> }

\* (union|select|insert|update|delete|drop|create|alter)\s
SqlKeywordAt(t, i) ==
    \E k \in SqlKeywords :
        /\ MatchAt(t, i, k)
        /\ i + Len(k) <= Len(t)
        /\ t[i + Len(k)] \in SpaceChars

\* some pattern of BANNED_PATTERNS is found in text (re.search, re.IGNORECASE)
HasBannedPattern(text) ==
    LET t == lower(text)
    IN  \/ \E i \in 1..Len(t) : ScriptTagAt(t, i)
        \/ Contains(t, << "j", "a", "v", "a", "s", "c", "r", "i", "p", "t", ":" >>)
        \/ Contains(t, << "v", "b", "s", "c", "r", "i", "p", "t", ":" >>)
        \/ \E i \in 1..Len(t) : EventHandlerAt(t, i)
        \/ \E i \in 1..Len(t) : t[i] \in ControlChars
        \/ Contains(t, << ".", ".", "/" >>)
        \/ \E i \in 1..Len(t) : SqlKeywordAt(t, i)

sanitize_text(text, max_length) ==
    IF text = << >> THEN << >>
    ELSE LET t1 == RemoveChars(text, ControlChars)
         IN  IF HasBannedPattern(t1) THEN FILTERED
             ELSE LET t2 == html_escape(t1)
                      t3 == IF max_length # 0 /\ Len(t2) > max_length
                            THEN Prefix(t2, max_length) ELSE t2
                  IN  strip(t3)

\* ^[a-zA-Z0-9_]+$ : "$" also matches before a line feed that ends the text
WordOnly(s) ==
    LET body == IF Len(s) > 1 /\ s[Len(s)] = "LF" THEN SubSeq(s, 1, Len(s) - 1) ELSE s
    IN  /\ body # << >>
        /\ \A i \in 1..Len(body) : body[i] \in WordChars

ReservedNames ==
    { << "a", "d", "m", "i", "n" >>, << "r", "o", "o", "t" >>,
      << "s", "y", "s", "t", "e", "m" >>, << "s", "y", "s", "o", "p" >>,
      << "g", "u", "e", "s", "t" >>,
      << "a", "n", "o", "n", "y", "m", "o", "u", "s" >>, << "u", "s", "e", "r" >> }

validate_username(username) ==
    /\ username # << >>
    /\ Len(username) <= MAX_USERNAME
    /\ Len(username) >= MIN_USERNAME
    /\ WordOnly(username)
    /\ username[1] \in UpperChars \cup LowerChars
    /\ lower(username) \notin ReservedNames

\* a validate_password that does not ask for a special character
validate_password_three_classes(password) ==
    /\ password # << >>
    /\ Len(password) >= MIN_PASSWORD
    /\ Len(password) <= MAX_PASSWORD
    /\ \E i \in 1..Len(password) : password[i] \in UpperChars
    /\ \E i \in 1..Len(password) : password[i] \in LowerChars
    /\ \E i \in 1..Len(password) : password[i] \in DigitChars

validate_password(password) ==
    /\ password # << >>
    /\ Len(password) >= MIN_PASSWORD
    /\ Len(password) <= MAX_PASSWORD
    /\ \E i \in 1..Len(password) : password[i] \in UpperChars
    /\ \E i \in 1..Len(password) : password[i] \in LowerChars
    /\ \E i \in 1..Len(password) : password[i] \in DigitChars
    /\ \E i \in 1..Len(password) : password[i] \in SpecialChars

ValidCommands ==
    { << "M" >>, << "M", "E", "S", "S", "A", "G", "E", "S" >>,
      << "M", "E", "S", "S", "A", "G", "E" >>,
      << "F" >>, << "F", "I", "L", "E", "S" >>, << "F", "I", "L", "E" >>,
      << "D" >>, << "D", "O", "O", "R", "S" >>, << "D", "O", "O", "R" >>,
      << "G", "A", "M", "E", "S" >>,
      << "C" >>, << "C", "H", "A", "T" >>,
      << "U" >>, << "U", "S", "E", "R", "S" >>, << "U", "S", "E", "R" >>,
      << "S" >>, << "S", "T", "A", "T", "S" >>,
      << "S", "T", "A", "T", "I", "S", "T", "I", "C", "S" >>,
      << "Q" >>, << "Q", "U", "I", "T" >>, << "E", "X", "I", "T" >>,
      << "L", "O", "G", "O", "F", "F" >>, << "B", "Y", "E" >>,
      << "H" >>, << "H", "E", "L", "P" >>, << "?" >>,
      << "T" >>, << "T", "I", "M", "E" >>,
      << "W" >>, << "W", "H", "O" >>,
      << "R" >>, << "R", "E", "A", "D" >>,
      << "P" >>, << "P", "O", "S", "T" >>,
      << "L" >>, << "L", "I", "S", "T" >>,
      << "B" >>, << "B", "A", "C", "K" >>,
      << "1" >>, << "2" >>, << "3" >>, << "4" >>, << "5" >>,
      << "6" >>, << "7" >>, << "8" >>, << "9" >>, << "0" >>,
      << "Y" >>, << "Y", "E", "S" >>, << "N" >>, << "N", "O" >>,
      << "E", "N", "T", "E", "R" >>, << "R", "E", "T", "U", "R", "N" >> }

\* str.isdigit()
IsDigits(s) == s # << >> /\ \A i \in 1..Len(s) : s[i] \in DigitChars

\* validate_command returns (valid, command): the command is command.strip().upper()
NormalizeCommand(command) == upper(strip(command))

validate_command(command) ==
    /\ command # << >>
    /\ \/ IsDigits(NormalizeCommand(command))
       \/ NormalizeCommand(command) \in ValidCommands

(***************************************************************************)
(* RateLimiter.  rl = [command_counts, login_attempts, lockouts]: the      *)
(* three dictionaries, each a function whose domain is the set of keys.    *)
(* A sample is the pair <<timestamp, 1>>.                                  *)
(***************************************************************************)
COMMAND_WINDOW == 60

LOGIN_WINDOW == 300

RETENTION == 3600

\* [x for x in samples if now - x[0] < horizon]
RECURSIVE Younger(_, _, _)
Younger(samples, t, horizon) ==
    IF samples = << >> THEN << >>
    ELSE IF t - Head(samples)[1] < horizon
         THEN << Head(samples) >> \o Younger(Tail(samples), t, horizon)
         ELSE Younger(Tail(samples), t, horizon)

\* sum(1 for ts, _ in samples if now - ts < window)
CountRecent(samples, t, window) == Len(Younger(samples, t, window))

NewRateLimiter ==
    [command_counts |-> << >>, login_attempts |-> << >>, lockouts |-> << >>]

\* d[k] = v for a dictionary d
DictSet(d, k, v) == [x \in DOMAIN d \cup {k} |-> IF x = k THEN v ELSE d[x]]

\* a cleanup_old_entries that keeps the samples of the command window only
cleanup_old_entries_window(rl, ip, t) ==
    [rl EXCEPT
       !.command_counts =
           IF ip \in DOMAIN rl.command_counts
           THEN [rl.command_counts EXCEPT ![ip] = Younger(@, t, COMMAND_WINDOW)]
           ELSE @,
       !.login_attempts =
           IF ip \in DOMAIN rl.login_attempts
           THEN [rl.login_attempts EXCEPT ![ip] = Younger(@, t, COMMAND_WINDOW)]
           ELSE @]

cleanup_old_entries(rl, ip, t) ==
    [rl EXCEPT
       !.command_counts =
           IF ip \in DOMAIN rl.command_counts
           THEN [rl.command_counts EXCEPT ![ip] = Younger(@, t, RETENTION)]
           ELSE @,
       !.login_attempts =
           IF ip \in DOMAIN rl.login_attempts
           THEN [rl.login_attempts EXCEPT ![ip] = Younger(@, t, RETENTION)]
           ELSE @]

\* a lockout that still holds at the instant it runs out
LockedOut_inclusive(rl, ip, t) == ip \in DOMAIN rl.lockouts /\ t <= rl.lockouts[ip]

\* "ip in self.lockouts and now < self.lockouts[ip]"
LockedOut(rl, ip, t) == ip \in DOMAIN rl.lockouts /\ t < rl.lockouts[ip]

\* "recent_commands >= MAX_COMMANDS_PER_MINUTE"
CommandLimitReached(n) == n >= MAX_COMMANDS_PER_MINUTE

\* is_rate_limited returns .limited and leaves the limiter as .rl
is_rate_limited(rl, ip, t) ==
    IF LockedOut(rl, ip, t) THEN [limited |-> TRUE, rl |-> rl]
    ELSE LET rl1 == cleanup_old_entries(rl, ip, t)
         IN  [limited |->
                 /\ ip \in DOMAIN rl1.command_counts
                 /\ CommandLimitReached(
                        CountRecent(rl1.command_counts[ip], t, COMMAND_WINDOW)),
              rl |-> rl1]

record_command(rl, ip, t) ==
    LET old == IF ip \in DOMAIN rl.command_counts THEN rl.command_counts[ip] ELSE << >>
    IN  [rl EXCEPT !.command_counts = DictSet(@, ip, Append(old, << t, 1 >>))]

\* a lockout that needs one failure more
LockoutReached_late(n) == n > MAX_LOGIN_ATTEMPTS

\* "recent_failures >= MAX_LOGIN_ATTEMPTS"
LockoutReached(n) == n >= MAX_LOGIN_ATTEMPTS

\* a record_login_attempt whose success forgets the failures and the lockout
record_login_attempt_reset(rl, ip, success, t) ==
    LET old == IF ip \in DOMAIN rl.login_attempts THEN rl.login_attempts[ip] ELSE << >>
    IN  IF success
        THEN [rl EXCEPT !.login_attempts = DictSet(@, ip, << >>),
                        !.lockouts = [b \in DOMAIN @ \ { ip } |-> @[b]]]
        ELSE LET new == Append(old, << t, 1 >>)
                 rl1 == [rl EXCEPT !.login_attempts = DictSet(@, ip, new)]
             IN  IF LockoutReached(CountRecent(new, t, LOGIN_WINDOW))
                 THEN [rl1 EXCEPT !.lockouts = DictSet(@, ip, t + LOCKOUT_DURATION)]
                 ELSE rl1

\* a record_login_attempt whose lockout is one for all the addresses it knows
record_login_attempt_global(rl, ip, success, t) ==
    LET old == IF ip \in DOMAIN rl.login_attempts THEN rl.login_attempts[ip] ELSE << >>
    IN  IF success
        THEN [rl EXCEPT !.login_attempts = DictSet(@, ip, old)]
        ELSE LET new == Append(old, << t, 1 >>)
                 rl1 == [rl EXCEPT !.login_attempts = DictSet(@, ip, new)]
             IN  IF LockoutReached(CountRecent(new, t, LOGIN_WINDOW))
                 THEN [rl1 EXCEPT !.lockouts =
                          [b \in DOMAIN rl1.login_attempts |-> t + LOCKOUT_DURATION]]
                 ELSE rl1

record_login_attempt(rl, ip, success, t) ==
    LET old == IF ip \in DOMAIN rl.login_attempts THEN rl.login_attempts[ip] ELSE << >>
    IN  IF success
        THEN [rl EXCEPT !.login_attempts = DictSet(@, ip, old)]
        ELSE LET new == Append(old, << t, 1 >>)
                 rl1 == [rl EXCEPT !.login_attempts = DictSet(@, ip, new)]
             IN  IF LockoutReached(CountRecent(new, t, LOGIN_WINDOW))
                 THEN [rl1 EXCEPT !.lockouts = DictSet(@, ip, t + LOCKOUT_DURATION)]
                 ELSE rl1

(***************************************************************************)
(* BBSDatabase.  db = [users, messages, login_log].  users maps a username *)
(* (UNIQUE) to its row, messages and login_log are the rows in insertion   *)
(* order.  PBKDF2-HMAC-SHA256 is taken to be injective: the hash of        *)
(* (password, salt) is the pair itself.                                    *)
(***************************************************************************)
\* last_login of a row that was never logged in (NULL)
NULL == -1

pbkdf2_hmac(password, salt) == << salt, password >>

NewDatabase == [users |-> << >>, messages |-> << >>, login_log |-> << >>]

\* an INSERT OR REPLACE in the place of the INSERT
create_user_replace(db, username, password, real_name, location, salt) ==
    [ok |-> username \notin DOMAIN db.users,
     db |-> [db EXCEPT !.users =
               DictSet(@, username,
                   [password_hash |-> pbkdf2_hmac(password, salt),
                    salt          |-> salt,
                    real_name     |-> real_name,
                    location      |-> location,
                    last_login    |-> NULL,
                    login_count   |-> 0])]]

\* create_user returns .ok and leaves the database as .db; the INSERT raises
\* sqlite3.IntegrityError when the username has a row
create_user(db, username, password, real_name, location, salt) ==
    IF username \in DOMAIN db.users
    THEN [ok |-> FALSE, db |-> db]
    ELSE [ok |-> TRUE,
          db |-> [db EXCEPT !.users =
                    DictSet(@, username,
                        [password_hash |-> pbkdf2_hmac(password, salt),
                         salt          |-> salt,
                         real_name     |-> real_name,
                         location      |-> location,
                         last_login    |-> NULL,
                         login_count   |-> 0])]]

\* a check of the username alone
verify_user_any(db, username, password) == username \in DOMAIN db.users

verify_user(db, username, password) ==
    /\ username \in DOMAIN db.users
    /\ pbkdf2_hmac(password, db.users[username].salt) = db.users[username].password_hash

update_login(db, username, t) ==
    IF username \in DOMAIN db.users
    THEN [db EXCEPT !.users[username].last_login = t,
                    !.users[username].login_count = @ + 1]
    ELSE db

log_login_attempt(db, username, ip, success) ==
    [db EXCEPT !.login_log =
        Append(@, [username |-> username, ip_address |-> ip, success |-> success])]

(***************************************************************************)
(* WebBBSSession.  A session s is the record of the object's attributes;   *)
(* an attribute the code sets on first use (login_step, message_area, ...) *)
(* is "unset" until then, and a dictionary key that is missing is Absent   *)
(* (text) or "absent" (a step name).                                       *)
(*                                                                         *)
(* A handler takes and returns a context x: the session x.s, the database  *)
(* x.db, the rate limiter x.rl, the clock x.t, the salt the next           *)
(* create_user draws, the response x.resp, and a note of the verify_user   *)
(* and create_user calls the handler made.                                 *)
(***************************************************************************)
None == << "<None>" >>

Absent == << "<absent>" >>

max_login_attempts == 3

login_timeout == 300

idle_timeout == 1800

NoRegistration ==
    [step |-> "absent", username |-> Absent, password |-> Absent, real_name |-> Absent]

NoTempMessage ==
    [step |-> "absent", subject |-> Absent, has_body |-> FALSE, body_lines |-> << >>]

NewSession(ip, t) ==
    [ip_address         |-> ip,
     username           |-> None,
     authenticated      |-> FALSE,
     current_menu       |-> "login",
     last_activity      |-> t,
     login_attempts     |-> 0,
     registration_state |-> NoRegistration,
     temp_data          |-> [username |-> Absent],
     login_step         |-> "unset",
     message_area       |-> "unset",
     message_state      |-> "unset",
     has_temp_message   |-> FALSE,
     temp_message       |-> NoTempMessage,
     reading_message    |-> FALSE,
     post_continue      |-> FALSE]

\* "now - self.last_activity > self.idle_timeout"
IdleTooLong(idle) == idle > idle_timeout

\* "now - self.last_activity > self.login_timeout"
LoginTooLong(idle) == idle > login_timeout

is_session_valid(s, t) ==
    IF IdleTooLong(t - s.last_activity) THEN FALSE
    ELSE IF ~s.authenticated /\ LoginTooLong(t - s.last_activity) THEN FALSE
    ELSE TRUE

\* a response: the named output, the menu, and the two optional keys
Response(output, menu) ==
    [output |-> output, menu |-> menu, password_field |-> FALSE, session_ended |-> FALSE]

PasswordResponse(output, menu) ==
    [output |-> output, menu |-> menu, password_field |-> TRUE, session_ended |-> FALSE]

EndResponse(output, menu) ==
    [output |-> output, menu |-> menu, password_field |-> FALSE, session_ended |-> TRUE]

NoResponse == Response("none", "none")

\* what handle_bbs_input emits when process_input raises: 'bbs_error'
ErrorResponse ==
    [output |-> "bbs_error", menu |-> "none", password_field |-> FALSE,
     session_ended |-> FALSE]

\* no storage call of the input raises
NoFault == "none"

\* the storage calls of an input, one of which may raise
Faults ==
    { "verify_user", "update_login", "log_login_attempt", "create_user",
      "insert_message", "select_messages" }

\* an exception leaves process_input: what the handler has assigned stays
Raised(x) == [x EXCEPT !.raised = TRUE, !.resp = NoResponse]

NoVerify == [called |-> FALSE, username |-> None, password |-> None, result |-> FALSE]

NoCreate == [called |-> FALSE, username |-> None, password |-> None, result |-> FALSE]

\* dict.get(key, '')
GetOrEmpty(v) == IF v = Absent THEN << >> ELSE v

show_main_menu(x, welcome) ==
    [x EXCEPT !.s.current_menu = "main",
              !.resp = Response(IF welcome THEN "welcome_main_menu" ELSE "main_menu", "main")]

\* "self.login_attempts >= self.max_login_attempts"
TooManyAttempts(n) == n >= max_login_attempts

\* a register_offer step that also forgets the failures counted so far
decline_registration_reset(x) ==
    [x EXCEPT !.s.login_step = "username",
              !.s.login_attempts = 0,
              !.s.temp_data = [username |-> Absent],
              !.resp = Response("enter_username", "login")]

\* the register_offer step when the answer is not Y or YES
decline_registration(x) ==
    [x EXCEPT !.s.login_step = "username",
              !.s.temp_data = [username |-> Absent],
              !.resp = Response("enter_username", "login")]

\* a password step that lets the user in although verify_user returned False
login_failed_open(x, username) ==
    show_main_menu([x EXCEPT !.s.username = username, !.s.authenticated = TRUE], TRUE)

\* the password step when verify_user returns False
login_failed(x, username) ==
    LET n  == x.s.login_attempts + 1
        x1 == [x EXCEPT !.s.login_attempts = n,
                        !.db = log_login_attempt(x.db, username, x.s.ip_address, FALSE),
                        !.rl = record_login_attempt(x.rl, x.s.ip_address, FALSE, x.t)]
    IN  IF x.fault = "log_login_attempt"
        THEN Raised([x EXCEPT !.s.login_attempts = n])
        ELSE IF TooManyAttempts(n)
        THEN [x1 EXCEPT !.resp = EndResponse("too_many_failed_attempts", "login")]
        ELSE [x1 EXCEPT !.s.login_step = "register_offer",
                        !.resp = Response("invalid_login_register_offer", "login")]

\* the password step when verify_user returns True
login_succeeded(x, username) ==
    LET db1 == update_login(x.db, username, x.t)
        db2 == log_login_attempt(db1, username, x.s.ip_address, TRUE)
        x1  == [x EXCEPT !.s.username = username, !.s.authenticated = TRUE]
    IN  IF x.fault = "update_login" THEN Raised(x1)
        ELSE IF x.fault = "log_login_attempt" THEN Raised([x1 EXCEPT !.db = db1])
        ELSE show_main_menu(
                [x1 EXCEPT !.db = db2,
                           !.rl = record_login_attempt(x.rl, x.s.ip_address, TRUE, x.t)],
                TRUE)

\* the step 'username' of handle_registration
registration_username(x) ==
    IF GetOrEmpty(x.s.registration_state.username) # << >>
    THEN [x EXCEPT !.s.registration_state.step = "password",
                   !.resp = PasswordResponse("registering_username", "register")]
    ELSE [x EXCEPT !.resp = Response("user_registration", "register")]

\* a step 'location' that lets the user in whatever create_user returns
registration_create_trusting(x, user_input) ==
    LET username == x.s.registration_state.username
        password == x.s.registration_state.password
        made     == create_user(x.db, username, password,
                                GetOrEmpty(x.s.registration_state.real_name),
                                sanitize_text(user_input, MAX_LOCATION), x.salt)
    IN  [x EXCEPT !.s.username = username,
                  !.s.authenticated = TRUE,
                  !.s.current_menu = "main",
                  !.db = update_login(made.db, username, x.t),
                  !.create = [called |-> TRUE, username |-> username,
                              password |-> password, result |-> made.ok],
                  !.resp = Response("registration_successful", "register")]

\* the step 'location' of handle_registration: create the account
registration_create(x, user_input) ==
    LET location  == sanitize_text(user_input, MAX_LOCATION)
        username  == x.s.registration_state.username
        password  == x.s.registration_state.password
        real_name == GetOrEmpty(x.s.registration_state.real_name)
        made      == create_user(x.db, username, password, real_name, location, x.salt)
        note      == [called |-> TRUE, username |-> username, password |-> password,
                      result |-> made.ok]
    IN  IF x.fault = "create_user" THEN Raised(x)
        ELSE IF made.ok /\ x.fault = "update_login"
        THEN Raised([x EXCEPT !.s.username = username,
                              !.s.authenticated = TRUE,
                              !.db = made.db,
                              !.create = note])
        ELSE IF made.ok
        THEN [x EXCEPT !.s.username = username,
                       !.s.authenticated = TRUE,
                       !.s.current_menu = "main",
                       !.db = update_login(made.db, username, x.t),
                       !.create = note,
                       !.resp = Response("registration_successful", "register")]
        ELSE [x EXCEPT !.create = note,
                       !.resp = Response("registration_failed", "register")]

handle_registration(x, user_input) ==
    LET step == IF x.s.registration_state.step = "absent" THEN "username"
                ELSE x.s.registration_state.step
    IN  CASE step = "username" -> registration_username(x)
          [] step = "password" ->
                IF user_input = << >>
                THEN [x EXCEPT !.resp = PasswordResponse("password_empty", "register")]
                ELSE IF ~validate_password(user_input)
                THEN [x EXCEPT !.resp =
                        PasswordResponse("password_validation_failed", "register")]
                ELSE [x EXCEPT !.s.registration_state.password = user_input,
                               !.s.registration_state.step = "real_name",
                               !.resp = Response("password_accepted", "register")]
          [] step = "real_name" ->
                [x EXCEPT !.s.registration_state.real_name =
                              sanitize_text(user_input, MAX_REALNAME),
                          !.s.registration_state.step = "location",
                          !.resp = Response("enter_location", "register")]
          [] step = "location" -> registration_create(x, user_input)
          [] OTHER -> show_main_menu(x, FALSE)

\* the register_offer step when the answer is Y or YES
accept_registration(x) ==
    handle_registration(
        [x EXCEPT !.s.current_menu = "register",
                  !.s.registration_state =
                      [step      |-> "username",
                       username  |-> GetOrEmpty(x.s.temp_data.username),
                       password  |-> << >>,
                       real_name |-> Absent]],
        << >>)

AcceptWords == { << "Y" >>, << "Y", "E", "S" >> }

handle_login(x, user_input) ==
    LET step == IF x.s.login_step = "unset" THEN "banner" ELSE x.s.login_step
        x0   == [x EXCEPT !.s.login_step = step]
    IN  CASE step = "banner" ->
                [x0 EXCEPT !.s.login_step = "username",
                           !.resp = Response("banner", "login")]
          [] step = "username" ->
                IF strip(user_input) = << >>
                THEN [x0 EXCEPT !.resp = Response("username_empty", "login")]
                ELSE IF ~validate_username(user_input)
                THEN [x0 EXCEPT !.resp = Response("invalid_username", "login")]
                ELSE [x0 EXCEPT !.s.temp_data = [username |-> user_input],
                                !.s.login_step = "password",
                                !.resp = PasswordResponse("enter_password", "login")]
          [] step = "password" ->
                LET username == GetOrEmpty(x0.s.temp_data.username)
                    ok       == verify_user(x0.db, username, user_input)
                    x1       == [x0 EXCEPT !.verify =
                                    [called |-> TRUE, username |-> username,
                                     password |-> user_input, result |-> ok]]
                IN  IF user_input = << >>
                    THEN [x0 EXCEPT !.resp = PasswordResponse("password_empty", "login")]
                    ELSE IF x0.fault = "verify_user" THEN Raised(x0)
                    ELSE IF ok THEN login_succeeded(x1, username)
                    ELSE login_failed(x1, username)
          [] step = "register_offer" ->
                IF upper(strip(user_input)) \in AcceptWords
                THEN accept_registration(x0)
                ELSE decline_registration(x0)
          [] OTHER -> x0

QuitCommands ==
    { << "Q" >>, << "Q", "U", "I", "T" >>, << "E", "X", "I", "T" >>,
      << "L", "O", "G", "O", "F", "F" >>, << "B", "Y", "E" >> }

MessagesCommands ==
    { << "M" >>, << "M", "E", "S", "S", "A", "G", "E", "S" >>,
      << "M", "E", "S", "S", "A", "G", "E" >>, << "1" >> }

DoorsCommands ==
    { << "D" >>, << "D", "O", "O", "R", "S" >>, << "D", "O", "O", "R" >>,
      << "G", "A", "M", "E", "S" >>, << "2" >> }

UsersCommands ==
    { << "U" >>, << "U", "S", "E", "R", "S" >>, << "U", "S", "E", "R" >>, << "3" >> }

HelpCommands == { << "H" >>, << "H", "E", "L", "P" >>, << "?" >>, << "4" >> }

TimeCommands == { << "T" >>, << "T", "I", "M", "E" >>, << "5" >> }

BackWords == { << "B" >>, << "B", "A", "C", "K" >> }

MAX_INPUT == 100

(***************************************************************************)
(* The texts the sessions are given                                        *)
(***************************************************************************)
Empty == << >>

Bob == << "b", "o", "b", "_", "2" >>

Amy == << "a", "m", "y", "_", "1" >>

UnderscoreBob == << "_", "b", "o", "b" >>

GoodPassword == << "A", "b", "c", "d", "e", "f", "1", "!" >>

OtherPassword == << "X", "y", "z", "x", "y", "z", "9", "?" >>

\* meets every password requirement, and holds an SQL keyword followed by a space
DropPassword == << "D", "r", "o", "p", " ", "i", "t", "1", "!" >>

Yes == << "Y" >>

No == << "N" >>

Quit == << "Q" >>

QuitLower == << "q", "u", "i", "t" >>

ExitMixed == << "E", "x", "i", "t" >>

Logoff == << "L", "O", "G", "O", "F", "F" >>

ByeMixed == << "b", "Y", "e" >>

QuitPadded == << " ", "q", " " >>

\* no command
Quits == << "q", "u", "i", "t", "s" >>

TimeLower == << "t" >>

HelpLower == << "h" >>

\* a valid command the main menu does not implement
Stats == << "S" >>

MessagesKey == << "M" >>

PostKey == << "p" >>

ReadKey == << "r" >>

Hello == << "H", "e", "l", "l", "o" >>

World == << "W", "o", "r", "l", "d" >>

EndLower == << "e", "n", "d" >>

CancelLower == << "c", "a", "n", "c", "e", "l" >>

AreaTwo == << "2" >>

AreaFour == << "4" >>

\* GoodPassword typed with a space after it
PaddedPassword == GoodPassword \o << " " >>

\* a line as long as process_input lets through
LongLine == [i \in 1..MAX_INPUT |-> "a"]

Texts ==
    { Empty, Bob, Amy, UnderscoreBob, GoodPassword, OtherPassword, DropPassword,
      Yes, No, Quit, QuitLower, ExitMixed, Logoff, ByeMixed, QuitPadded, Quits,
      TimeLower, HelpLower, Stats, MessagesKey, PostKey, ReadKey, Hello, World,
      EndLower, CancelLower, LongLine, AreaTwo, AreaFour,
      PaddedPassword }

\* sanitize_text(text, 100) of each text of Texts, computed once
SanitizedTexts == [i \in Texts |-> sanitize_text(i, MAX_INPUT)]

\* int(text) of base 10: an optional sign, then digits
IsInt(s) ==
    LET d == IF s # << >> /\ s[1] \in { "+", "-" } THEN Tail(s) ELSE s
    IN  IsDigits(d)

DigitSeq == << "0", "1", "2", "3", "4", "5", "6", "7", "8", "9" >>

DigitValue(c) == (CHOOSE i \in 1..10 : DigitSeq[i] = c) - 1

RECURSIVE DigitsValue(_)
DigitsValue(d) ==
    IF d = << >> THEN 0
    ELSE 10 * DigitsValue(SubSeq(d, 1, Len(d) - 1)) + DigitValue(d[Len(d)])

IntValue(s) ==
    IF s[1] = "-" THEN 0 - DigitsValue(Tail(s))
    ELSE IF s[1] = "+" THEN DigitsValue(Tail(s))
    ELSE DigitsValue(s)

\* '\n'.join(lines), from the i-th line on
RECURSIVE JoinFrom(_, _)
JoinFrom(lines, i) ==
    IF i >= Len(lines) THEN lines[i]
    ELSE lines[i] \o << "LF" >> \o JoinFrom(lines, i + 1)

\* '\n'.join(lines)
JoinLines(lines) == IF lines = << >> THEN << >> ELSE JoinFrom(lines, 1)

\* sum(len(line) for line in lines), over the first n lines
RECURSIVE LengthUpTo(_, _)
LengthUpTo(lines, n) ==
    IF n = 0 THEN 0 ELSE LengthUpTo(lines, n - 1) + Len(lines[n])

\* sum(len(line) for line in lines)
TotalLength(lines) == LengthUpTo(lines, Len(lines))

MAX_SUBJECT == 100

MAX_BODY_LINE == 200

MAX_BODY == 1000

\* "total_length > 1000"
BodyTooLong(n) == n > MAX_BODY

CancelWord == << "C", "A", "N", "C", "E", "L" >>

EndWord == << "E", "N", "D" >>

show_message_menu_screen(x) == [x EXCEPT !.resp = Response("message_areas", "messages")]

\* the INSERT of post_message_to_db: id is AUTOINCREMENT, posted_at CURRENT_TIMESTAMP
insert_message(db, from_user, subject, body, area, t) ==
    [db EXCEPT !.messages =
        Append(@, [id           |-> Len(db.messages) + 1,
                   from_user    |-> from_user,
                   to_user      |-> << "A", "L", "L" >>,
                   subject      |-> subject,
                   body         |-> body,
                   posted_at    |-> t,
                   message_area |-> area])]

post_message_to_db(x) ==
    LET subject == GetOrEmpty(x.s.temp_message.subject)
        body    == JoinLines(x.s.temp_message.body_lines)
    IN  IF subject = << >> \/ body = << >>
        THEN [x EXCEPT !.resp = Response("message_incomplete", "messages")]
        ELSE IF x.fault = "insert_message"
        THEN [x EXCEPT !.resp = Response("error_posting", "messages")]
        ELSE [x EXCEPT !.db = insert_message(x.db, x.s.username, subject, body,
                                             x.s.message_area, x.t),
                       !.s.message_state = "view",
                       !.s.temp_message = NoTempMessage,
                       !.s.post_continue = TRUE,
                       !.resp = Response("message_posted", "messages")]

handle_post_message(x, user_input) ==
    LET x0   == IF x.s.has_temp_message THEN x
                ELSE [x EXCEPT !.s.has_temp_message = TRUE,
                               !.s.temp_message = [NoTempMessage EXCEPT !.step = "subject"]]
        step == IF x0.s.temp_message.step = "absent" THEN "subject"
                ELSE x0.s.temp_message.step
    IN  CASE step = "subject" ->
                IF user_input = << >>
                THEN [x0 EXCEPT !.resp = Response("post_new_message", "messages")]
                ELSE IF upper(user_input) = CancelWord
                THEN show_message_menu_screen([x0 EXCEPT !.s.message_state = "menu"])
                ELSE IF strip(user_input) = << >>
                THEN [x0 EXCEPT !.resp = Response("subject_empty", "messages")]
                ELSE [x0 EXCEPT !.s.temp_message.subject =
                                    sanitize_text(user_input, MAX_SUBJECT),
                                !.s.temp_message.step = "body",
                                !.resp = Response("enter_body", "messages")]
          [] step = "body" ->
                IF upper(user_input) = CancelWord
                THEN show_message_menu_screen([x0 EXCEPT !.s.message_state = "menu"])
                ELSE IF upper(user_input) = EndWord
                THEN post_message_to_db(x0)
                ELSE LET lines == Append(x0.s.temp_message.body_lines,
                                         sanitize_text(user_input, MAX_BODY_LINE))
                         x1    == [x0 EXCEPT !.s.temp_message.has_body = TRUE,
                                             !.s.temp_message.body_lines = lines]
                     IN  IF BodyTooLong(TotalLength(lines))
                         THEN [x1 EXCEPT !.resp = Response("message_too_long", "messages")]
                         ELSE [x1 EXCEPT !.resp = Response("body_line", "messages")]
          [] OTHER -> show_message_menu_screen(x0)

\* a P / POST choice that resumes the composition the session holds
start_post_resume(x, read_only_output) ==
    handle_post_message([x EXCEPT !.s.message_state = "post",
                                  !.s.has_temp_message = TRUE], << >>)

\* a P / POST choice that begins a composition in whatever area is selected
start_post_anywhere(x, read_only_output) ==
    handle_post_message(
        [x EXCEPT !.s.message_state = "post",
                  !.s.has_temp_message = TRUE,
                  !.s.temp_message = [NoTempMessage EXCEPT !.step = "subject"]],
        << >>)

\* the P / POST choice of the message menu and of the message list
start_post(x, read_only_output) ==
    IF x.s.message_area = "Announcements"
    THEN [x EXCEPT !.resp = Response(read_only_output, "messages")]
    ELSE handle_post_message(
            [x EXCEPT !.s.message_state = "post",
                      !.s.has_temp_message = TRUE,
                      !.s.temp_message = [NoTempMessage EXCEPT !.step = "subject"]],
            << >>)

\* SELECT ... WHERE id = ? AND message_area = ?
read_message(x, msg_id) ==
    IF x.fault = "select_messages"
    THEN [x EXCEPT !.resp = Response("error_reading_message", "messages")]
    ELSE IF \E i \in 1..Len(x.db.messages) :
          /\ x.db.messages[i].id = msg_id
          /\ x.db.messages[i].message_area = x.s.message_area
    THEN [x EXCEPT !.resp = Response("message_text", "messages")]
    ELSE [x EXCEPT !.resp = Response("message_not_found", "messages")]

\* handle_view_messages once the two continuation flags are clear
view_messages(x, user_input) ==
    IF user_input = << >>
    THEN IF x.fault = "select_messages"
         THEN [x EXCEPT !.resp = Response("error_retrieving_messages", "messages")]
         ELSE [x EXCEPT !.resp = Response("message_list", "messages")]
    ELSE IF upper(user_input) \in BackWords
    THEN show_message_menu_screen([x EXCEPT !.s.message_state = "menu"])
    ELSE IF upper(user_input) \in { << "P" >>, << "P", "O", "S", "T" >> }
    THEN start_post(x, "read_only_continue")
    ELSE IF IsInt(user_input)
    THEN read_message([x EXCEPT !.s.reading_message = TRUE], IntValue(user_input))
    ELSE [x EXCEPT !.resp = Response("invalid_message_choice", "messages")]

handle_view_messages(x, user_input) ==
    IF x.s.reading_message
    THEN LET x1 == [x EXCEPT !.s.reading_message = FALSE]
         IN  IF x1.s.post_continue
             THEN show_message_menu_screen(
                     [x1 EXCEPT !.s.post_continue = FALSE, !.s.message_state = "menu"])
             ELSE view_messages(x1, << >>)
    ELSE IF x.s.post_continue
    THEN show_message_menu_screen(
            [x EXCEPT !.s.post_continue = FALSE, !.s.message_state = "menu"])
    ELSE view_messages(x, user_input)

show_message_menu(x, user_input) ==
    IF user_input = << >> THEN show_message_menu_screen(x)
    ELSE IF upper(user_input) \in BackWords THEN show_main_menu(x, FALSE)
    ELSE IF user_input = << "1" >>
    THEN show_message_menu_screen([x EXCEPT !.s.message_area = "General"])
    ELSE IF user_input = << "2" >>
    THEN show_message_menu_screen([x EXCEPT !.s.message_area = "Gaming"])
    ELSE IF user_input = << "3" >>
    THEN show_message_menu_screen([x EXCEPT !.s.message_area = "Technical"])
    ELSE IF user_input = << "4" >>
    THEN show_message_menu_screen([x EXCEPT !.s.message_area = "Announcements"])
    ELSE IF upper(user_input) \in { << "R" >>, << "R", "E", "A", "D" >> }
    THEN handle_view_messages([x EXCEPT !.s.message_state = "view"], << >>)
    ELSE IF upper(user_input) \in { << "P" >>, << "P", "O", "S", "T" >> }
    THEN start_post(x, "read_only")
    ELSE [x EXCEPT !.resp = Response("invalid_choice", "messages")]

handle_message_area(x, user_input) ==
    LET x0 == [x EXCEPT
                 !.s.message_area  = IF @ = "unset" THEN "General" ELSE @,
                 !.s.message_state = IF @ = "unset" THEN "menu" ELSE @]
    IN  CASE x0.s.message_state = "menu" -> show_message_menu(x0, user_input)
          [] x0.s.message_state = "view" -> handle_view_messages(x0, user_input)
          [] x0.s.message_state = "post" -> handle_post_message(x0, user_input)
          [] OTHER -> show_message_menu_screen([x0 EXCEPT !.s.message_state = "menu"])

handle_door_games(x, user_input) ==
    IF user_input = << >> THEN [x EXCEPT !.resp = Response("door_games", "doors")]
    ELSE IF upper(user_input) \in BackWords THEN show_main_menu(x, FALSE)
    ELSE IF user_input \in { << "1" >>, << "2" >>, << "3" >> }
    THEN [x EXCEPT !.resp = Response("door_game_info", "doors")]
    ELSE [x EXCEPT !.resp = Response("invalid_selection", "doors")]

handle_user_list(x, user_input) ==
    IF user_input # << >> /\ upper(user_input) \in BackWords
    THEN show_main_menu(x, FALSE)
    ELSE [x EXCEPT !.resp = Response("user_list", "users")]

handle_help(x, user_input) ==
    IF user_input = << >> THEN [x EXCEPT !.resp = Response("help", "help")]
    ELSE show_main_menu(x, FALSE)

show_time(x) == [x EXCEPT !.resp = Response("system_time", "main")]

\* a main menu that knows the one-letter command only
IsQuitCommand_letter(cmd) == cmd = << "Q" >>

\* "validated_cmd in ['Q', 'QUIT', 'EXIT', 'LOGOFF', 'BYE']"
IsQuitCommand(cmd) == cmd \in QuitCommands

handle_main_menu(x, user_input) ==
    LET cmd == NormalizeCommand(user_input)
    IN  IF user_input = << >> THEN show_main_menu(x, FALSE)
        ELSE IF ~validate_command(user_input)
        THEN [x EXCEPT !.resp = Response("invalid_command", "main")]
        ELSE IF IsQuitCommand(cmd)
        THEN [x EXCEPT !.resp = EndResponse("goodbye", "main")]
        ELSE IF cmd \in MessagesCommands
        THEN handle_message_area([x EXCEPT !.s.current_menu = "messages"], << >>)
        ELSE IF cmd \in DoorsCommands
        THEN handle_door_games([x EXCEPT !.s.current_menu = "doors"], << >>)
        ELSE IF cmd \in UsersCommands
        THEN handle_user_list([x EXCEPT !.s.current_menu = "users"], << >>)
        ELSE IF cmd \in HelpCommands
        THEN handle_help([x EXCEPT !.s.current_menu = "help"], << >>)
        ELSE IF cmd \in TimeCommands THEN show_time(x)
        ELSE [x EXCEPT !.resp = Response("not_implemented", "main")]

\* the handler process_input routes to
dispatch(x, user_input) ==
    CASE x.s.current_menu = "login"    -> handle_login(x, user_input)
      [] x.s.current_menu = "register" -> handle_registration(x, user_input)
      [] x.s.current_menu = "main"     -> handle_main_menu(x, user_input)
      [] x.s.current_menu = "messages" -> handle_message_area(x, user_input)
      [] x.s.current_menu = "users"    -> handle_user_list(x, user_input)
      [] x.s.current_menu = "help"     -> handle_help(x, user_input)
      [] x.s.current_menu = "doors"    -> handle_door_games(x, user_input)
      [] OTHER                         -> show_main_menu(x, FALSE)

\* a rate-limited return that counts the refused input as a command
throttle_recording(x) ==
    [x EXCEPT !.rl = record_command(x.rl, x.s.ip_address, x.t),
              !.resp = Response("rate_limit_exceeded", x.s.current_menu)]

\* the rate-limited return of process_input
throttle(x) == [x EXCEPT !.resp = Response("rate_limit_exceeded", x.s.current_menu)]

\* "if user_input: user_input = SecurityValidator.sanitize_text(user_input, 100)";
\* the texts of Texts are looked up in SanitizedTexts, which holds just that value
sanitize_input(user_input) ==
    IF user_input \in DOMAIN SanitizedTexts THEN SanitizedTexts[user_input]
    ELSE sanitize_text(user_input, MAX_INPUT)

\* WebBBSSession.process_input
session_process_input(x, user_input) ==
    LET x0    == [x EXCEPT !.s.last_activity = x.t]
        check == is_rate_limited(x0.rl, x0.s.ip_address, x0.t)
        x1    == [x0 EXCEPT !.rl = check.rl]
    IN  IF check.limited THEN [throttle(x1) EXCEPT !.limited = TRUE]
        ELSE dispatch(
                [x1 EXCEPT !.rl = record_command(x1.rl, x1.s.ip_address, x1.t),
                           !.handler = x1.s.current_menu],
                sanitize_input(user_input))

(***************************************************************************)
(* WebBBSManager                                                           *)
(***************************************************************************)
cleanup_interval == 300

\* a sweep on every call
CleanupSkipped_never(elapsed) == FALSE

\* "now - self.last_cleanup < self.cleanup_interval": the sweep is skipped
CleanupSkipped(elapsed) == elapsed < cleanup_interval

\* a sweep that removes the sessions idle for too long only
cleanup_sessions_idle(table, stamp, t) ==
    IF CleanupSkipped(t - stamp) THEN [sessions |-> table, last_cleanup |-> stamp]
    ELSE [sessions |->
             [c \in { k \in DOMAIN table : ~IdleTooLong(t - table[k].last_activity) }
                 |-> table[c]],
          last_cleanup |-> t]

\* cleanup_sessions leaves the table as .sessions and the stamp as .last_cleanup
cleanup_sessions(table, stamp, t) ==
    IF CleanupSkipped(t - stamp) THEN [sessions |-> table, last_cleanup |-> stamp]
    ELSE [sessions |->
             [c \in { k \in DOMAIN table : is_session_valid(table[k], t) } |-> table[c]],
          last_cleanup |-> t]

\* get_or_create_session, after its cleanup_sessions call
get_or_create_session(table, c, ip, t) ==
    IF c \notin DOMAIN table THEN DictSet(table, c, NewSession(ip, t)) ELSE table

\* a process_input that hands the input to the session it finds, expired or not
replace_expired_kept(table, c, ip, t) == table

\* "if not session.is_session_valid()" of WebBBSManager.process_input
replace_expired(table, c, ip, t) ==
    IF ~is_session_valid(table[c], t) THEN DictSet(table, c, NewSession(ip, t)) ELSE table

end_session(table, c) == [k \in DOMAIN table \ {c} |-> table[k]]

(***************************************************************************)
(* BBSSession of the socket server (secure_bbs.py).  k is the session and  *)
(* k.pc the recv_line call its thread waits in; a step runs the thread     *)
(* from the return of that call to the next one.  y = [k, db, rl, t, salt, *)
(* create] is the context of a step; create notes its create_user call.   *)
(* The socket server has a RateLimiter of its own: its client's address is *)
(* none of the web connections'.                                           *)
(***************************************************************************)
recv_timeout == 300

sleep_seconds == 5

\* address[0] of the socket connection
SocketAddr == "10.0.0.2"

NoSocket ==
    [pc |-> "none", username |-> None, authenticated |-> FALSE, last_activity |-> 0,
     attempt |-> 0, typed_username |-> None, typed_password |-> None,
     real_name |-> None, waiting_since |-> 0, wake |-> 0, serial |-> 0]

\* BBSSession.__init__, for the serial-th connection the server accepted
NewBBSSession(t, serial) ==
    [NoSocket EXCEPT !.pc = "run", !.last_activity = t, !.serial = serial]

\* recv_line is entered: settimeout(300), then recv
await(y, pc) == [y EXCEPT !.k.pc = pc, !.k.waiting_since = y.t]

\* the thread leaves run(): socket.close()
close(y) == [y EXCEPT !.k.pc = "closed"]

\* "if not line"
Falsy(line) == line = None \/ line = << >>

\* recv_line() or ""
OrEmpty(line) == IF line = None THEN << >> ELSE line

\* "time.time() - self.last_activity > self.idle_timeout" of main_menu
SocketIdleTooLong(idle) == idle > idle_timeout

\* the head of the loop of main_menu
main_menu(y) ==
    IF ~y.k.authenticated THEN close(y)
    ELSE IF SocketIdleTooLong(y.t - y.k.last_activity) THEN close(y)
    ELSE LET check == is_rate_limited(y.rl, SocketAddr, y.t)
             y1    == [y EXCEPT !.rl = check.rl]
         IN  IF check.limited
             THEN [y1 EXCEPT !.k.pc = "sleep", !.k.wake = y.t + sleep_seconds]
             ELSE await(y1, "command")

\* the head of the loop of login_sequence
login_sequence(y) ==
    IF ~(y.k.attempt < max_login_attempts) THEN close(y)
    ELSE LET check == is_rate_limited(y.rl, SocketAddr, y.t)
             y1    == [y EXCEPT !.rl = check.rl]
         IN  IF check.limited THEN close(y1) ELSE await(y1, "username")

\* the end of an iteration of login_sequence that did not log in
login_attempt_failed(y) ==
    login_sequence(
        [y EXCEPT !.db = log_login_attempt(y.db, y.k.typed_username, SocketAddr, FALSE),
                  !.rl = record_login_attempt(y.rl, SocketAddr, FALSE, y.t),
                  !.k.attempt = @ + 1])

\* a register_user that takes any password
register_user_unchecked(y) == await(y, "real_name")

\* register_user up to its first recv_line
register_user(y) ==
    IF ~validate_password(y.k.typed_password) THEN login_attempt_failed(y)
    ELSE await(y, "real_name")

\* register_user from the location it received
register_user_create(y, line) ==
    LET location == sanitize_text(OrEmpty(line), MAX_LOCATION)
        made     == create_user(y.db, y.k.typed_username, y.k.typed_password,
                                y.k.real_name, location, y.salt)
        y1       == [y EXCEPT !.create = [called   |-> TRUE,
                                          username |-> y.k.typed_username,
                                          password |-> y.k.typed_password,
                                          result   |-> made.ok]]
    IN  IF made.ok
        THEN main_menu([y1 EXCEPT !.k.username = y.k.typed_username,
                                  !.k.authenticated = TRUE,
                                  !.db = update_login(made.db, y.k.typed_username, y.t)])
        ELSE login_attempt_failed(y1)

\* the password of login_sequence
socket_password(y, line) ==
    IF Falsy(line) THEN close(y)
    ELSE IF verify_user(y.db, y.k.typed_username, line)
    THEN main_menu(
            [y EXCEPT !.k.username = y.k.typed_username,
                      !.k.authenticated = TRUE,
                      !.db = log_login_attempt(
                                 update_login(y.db, y.k.typed_username, y.t),
                                 y.k.typed_username, SocketAddr, TRUE),
                      !.rl = record_login_attempt(y.rl, SocketAddr, TRUE, y.t)])
    ELSE await([y EXCEPT !.k.typed_password = line], "offer")

\* the command of main_menu
socket_command(y, line) ==
    LET y1  == [y EXCEPT !.rl = record_command(y.rl, SocketAddr, y.t)]
        cmd == NormalizeCommand(line)
    IN  IF Falsy(line) THEN close(y)
        ELSE IF ~validate_command(line) THEN main_menu(y1)
        ELSE IF IsQuitCommand(cmd) THEN close(y1)
        ELSE IF cmd \in DoorsCommands THEN await(y1, "door")
        ELSE IF cmd \in HelpCommands THEN await(y1, "help")
        ELSE main_menu(y1)

\* the thread from the return of recv_line, with line or None, to its next wait
resume(y, line) ==
    CASE y.k.pc = "username" ->
            IF Falsy(line) THEN close(y)
            ELSE IF ~validate_username(line)
            THEN login_sequence([y EXCEPT !.k.attempt = @ + 1])
            ELSE await([y EXCEPT !.k.typed_username = line], "password")
      [] y.k.pc = "password" -> socket_password(y, line)
      [] y.k.pc = "offer" ->
            IF ~Falsy(line) /\ upper(line) \in AcceptWords THEN register_user(y)
            ELSE login_attempt_failed(y)
      [] y.k.pc = "real_name" ->
            await([y EXCEPT !.k.real_name = sanitize_text(OrEmpty(line), MAX_REALNAME)],
                  "location")
      [] y.k.pc = "location" -> register_user_create(y, line)
      [] y.k.pc = "command" -> socket_command(y, line)
      [] OTHER -> main_menu(y)

(***************************************************************************)
(* The state                                                               *)
(***************************************************************************)
VARIABLES
    now,            \* time.time(), in seconds
    sessions,       \* WebBBSManager.sessions
    last_cleanup,   \* WebBBSManager.last_cleanup
    db,             \* the tables of bbs.db
    rl,             \* the RateLimiter the sessions share
    resp,           \* the response of the last process_input
    ev,             \* the last step: which operation ran, on what, and what it called
    ghost,          \* per connection, the inputs its present session object was given
    sock,           \* the BBSSession of the socket server and where its thread waits
    accounts,       \* per username, the password its row was created with
    handlers,       \* the threads that run event handlers, and the objects they hold
    active_sessions, \* app.active_sessions: the connections that have a door game
    peer            \* the BBSSession of a second connection of the socket server

vars ==
    << now, sessions, last_cleanup, db, rl, resp, ev, ghost, sock, accounts, handlers,
       active_sessions, peer >>

\* the connections (request.sid) and the address (REMOTE_ADDR) of each
Conns == { "c1", "c2" }

AddrOf(c) == "10.0.0.1"

Addrs == { "10.0.0.1", "10.0.0.2" }

\* the values secrets.token_hex(32) draws from
Salts == { "salt1" }

\* the threads that run the event handlers of app.py
Handlers == { "h1", "h2" }

\* a thread that runs no handler
NoThread ==
    [pc |-> "idle", kind |-> "none", conn |-> "none", input |-> << >>, t0 |-> 0,
     size |-> 0, keys |-> {}, visited |-> {}, expired |-> {}, oid |-> 0]

\* th: the threads; oid: the object each entry of the session table refers to;
\* heap: the session objects that are no longer in the table; made: the number of
\* session objects created; events: the number of events handled; overwritten: a
\* handler has stored a new session over one that was stored since its own test
NoHandlers ==
    [th |-> [h \in Handlers |-> NoThread], oid |-> << >>, heap |-> << >>, made |-> 0,
     events |-> 0, overwritten |-> FALSE]

NoEvent ==
    [kind |-> "none", conn |-> "none", addr |-> "none", success |-> FALSE,
     stale |-> FALSE, stale_authenticated |-> FALSE, fresh |-> FALSE,
     limited |-> FALSE, fault |-> NoFault, raised |-> FALSE, swept |-> {},
     handler |-> "none", verify |-> NoVerify, create |-> NoCreate,
     text |-> << >>, pieces |-> 0, sanitized |-> << >>, accepted |-> FALSE,
     after_success |-> FALSE]

\* how far the inputs of a session object have followed the registration scenario
NoScenario ==
    [on |-> TRUE, step |-> 0, user |-> None, authenticated_before |-> FALSE,
     row_before |-> FALSE]

NoGhost == [fails |-> 0, seen |-> 0, hist |-> << >>, scenario |-> NoScenario]

\* the passwords rows were created with, after a create_user call noted as note
Created(acc, note) ==
    IF note.called /\ note.result THEN DictSet(acc, note.username, note.password)
    ELSE acc

\* the database file outlives the server: it may hold rows of an earlier run
Registered(username, password) ==
    create_user(NewDatabase, username, password, << >>, << >>, "salt0").db

InitWith(databases) ==
    /\ now = 0
    /\ sessions = << >>
    /\ last_cleanup = 0
    /\ db \in databases
    /\ rl = NewRateLimiter
    /\ resp = NoResponse
    /\ ev = NoEvent
    /\ ghost = [c \in Conns |-> NoGhost]
    /\ sock = NoSocket
    /\ accounts = [u \in DOMAIN db.users |-> db.users[u].password_hash[2]]
    /\ handlers = NoHandlers
    /\ active_sessions = {}
    /\ peer = NoSocket

\* the inputs of the registration scenario, by what each is for
ScenarioSteps ==
    << "banner", "username", "password", "offer", "new_password", "real_name",
       "location" >>

ScenarioLength == Len(ScenarioSteps)

\* the k-th input of the registration scenario: '', a valid username without a
\* row, a password, Y, a password that meets the policy, a real name, a location;
\* none of them throttled
ScenarioInput(k, entry) ==
    /\ ~entry.limited
    /\ CASE k = 1 -> entry.input = Empty
          [] k = 2 -> validate_username(entry.input) /\ entry.input \notin entry.registered
          [] k = 3 -> entry.input # Empty
          [] k = 4 -> entry.input = Yes
          [] k = 5 -> validate_password(entry.input)
          [] OTHER -> k <= ScenarioLength

\* the scenario after one more input: one step further, or off for good
FollowScenario(sc, entry) ==
    IF ~sc.on \/ ~ScenarioInput(sc.step + 1, entry) THEN [NoScenario EXCEPT !.on = FALSE]
    ELSE [sc EXCEPT !.step = @ + 1,
                    !.user = IF sc.step + 1 = 2 THEN entry.input ELSE @,
                    !.authenticated_before =
                        IF sc.step + 1 = ScenarioLength - 1 THEN entry.authenticated ELSE @,
                    !.row_before =
                        IF sc.step + 1 = ScenarioLength THEN sc.user \in entry.registered
                        ELSE @]

\* what is remembered of a session object: the failed password checks it made, the
\* inputs it was given (counted up to keep + 1), the last keep of them and, when
\* watch is set, how far they follow the registration scenario
Remember(g, fresh, keep, watch, entry, failed) ==
    LET old == IF fresh THEN NoGhost ELSE g
        all == Append(old.hist, entry)
    IN  [fails |-> old.fails + (IF failed THEN 1 ELSE 0),
         seen  |-> IF old.seen <= keep THEN old.seen + 1 ELSE old.seen,
         hist  |-> IF Len(all) > keep THEN SubSeq(all, Len(all) - keep + 1, Len(all))
                   ELSE all,
         scenario |-> IF watch THEN FollowScenario(old.scenario, entry) ELSE old.scenario]

\* handle_bbs_input (and handle_bbs_connect, whose input is ''):
\* WebBBSManager.process_input(c, REMOTE_ADDR, user_input); fault is the storage
\* call that raises (database locked, disk full) if the step makes it
ProcessInputWith(c, user_input, salt, keep, watch, fault) ==
    LET swept == cleanup_sessions(sessions, last_cleanup, now)
        tbl1  == get_or_create_session(swept.sessions, c, AddrOf(c), now)
        tbl2  == replace_expired(tbl1, c, AddrOf(c), now)
        stale == c \in DOMAIN sessions /\ ~is_session_valid(sessions[c], now)
        fresh == c \notin DOMAIN swept.sessions \/ tbl2[c] # tbl1[c]
        x     == session_process_input(
                     [s |-> tbl2[c], db |-> db, rl |-> rl, t |-> now, salt |-> salt,
                      resp |-> NoResponse, verify |-> NoVerify, create |-> NoCreate,
                      limited |-> FALSE, handler |-> "none", fault |-> fault,
                      raised |-> FALSE],
                     user_input)
    IN  /\ sessions' = DictSet(tbl2, c, x.s)
        /\ last_cleanup' = swept.last_cleanup
        /\ db' = x.db
        /\ rl' = x.rl
        /\ resp' = IF x.raised THEN ErrorResponse ELSE x.resp
        /\ ev' = [NoEvent EXCEPT !.kind = "input", !.conn = c, !.addr = AddrOf(c),
                                  !.stale = stale,
                                  !.stale_authenticated =
                                      stale /\ sessions[c].authenticated,
                                  !.fresh = fresh,
                                  !.limited = x.limited, !.handler = x.handler,
                                  !.fault = fault,
                                  !.raised = x.raised,
                                  !.swept = DOMAIN sessions \ DOMAIN swept.sessions,
                                  !.verify = x.verify, !.create = x.create]
        /\ ghost' = [ghost EXCEPT ![c] =
                        Remember(@, fresh, keep, watch,
                                 [input |-> user_input,
                                  registered |-> DOMAIN db.users,
                                  limited |-> x.limited,
                                  authenticated |-> x.s.authenticated],
                                 x.verify.called /\ ~x.verify.result)]
        /\ accounts' = Created(accounts, x.create)
        /\ UNCHANGED << now, sock, handlers, active_sessions, peer >>

\* an input whose storage calls succeed
ProcessInput(c, user_input, salt, keep, watch) ==
    ProcessInputWith(c, user_input, salt, keep, watch, NoFault)

\* handle_bbs_disconnect: WebBBSManager.end_session(c)
Disconnect(c) ==
    /\ c \in DOMAIN sessions
    /\ sessions' = end_session(sessions, c)
    /\ ev' = [NoEvent EXCEPT !.kind = "disconnect", !.conn = c]
    /\ UNCHANGED << now, last_cleanup, db, rl, resp, ghost, sock, accounts, handlers,
                    active_sessions, peer >>

\* the clock moves on to a later instant
Tick(t) ==
    /\ t > now
    /\ now' = t
    /\ ev' = [NoEvent EXCEPT !.kind = "tick"]
    /\ UNCHANGED << sessions, last_cleanup, db, rl, resp, ghost, sock, accounts, handlers,
                    active_sessions, peer >>

\* the samples the limiter holds for an address
CommandSamples(ip) == IF ip \in DOMAIN rl.command_counts THEN rl.command_counts[ip] ELSE << >>

FailureSamples(ip) == IF ip \in DOMAIN rl.login_attempts THEN rl.login_attempts[ip] ELSE << >>

NextWeb(conns, inputs, times, most, keep, watch) ==
    \/ \E c \in conns, i \in inputs, salt \in Salts :
          /\ Len(CommandSamples(AddrOf(c))) < most
          /\ ProcessInput(c, i, salt, keep, watch)
    \/ \E c \in conns : Disconnect(c)
    \/ \E t \in times : Tick(t)

\* the sessions of Spec: one address, two connections, login and registration
LoginInputs == { Empty, Bob, Amy, GoodPassword, No }

LoginTimes == { 0, login_timeout + 1 }

MaxInputs == 10

Init == InitWith({ Registered(Bob, GoodPassword) })

Next == NextWeb({ "c1" }, LoginInputs, LoginTimes, MaxInputs, 0, FALSE)

Spec == Init /\ [][Next]_vars

\* the last step was a password check of connection c that failed
FailedCheck(c) ==
    /\ ev.kind = "input"
    /\ ev.conn = c
    /\ ev.verify.called
    /\ ~ev.verify.result

(***************************************************************************)
(* C2: within one session the failed password checks are counted together, *)
(* whatever the usernames and however many registration offers were        *)
(* declined in between: the response to the third failed check has         *)
(* session_ended set, and the responses to the first and the second failed *)
(* check do not.                                                           *)
(***************************************************************************)
C2_ThirdFailureEnds ==
    \A c \in Conns :
        FailedCheck(c) =>
            /\ ghost[c].fails = 3 => resp.session_ended
            /\ ghost[c].fails \in { 1, 2 } => ~resp.session_ended

\* the third failed check of a session, for another username than the first two,
\* answered with the forced end
C2_Witness ==
    /\ FailedCheck("c1")
    /\ ghost["c1"].fails = 3
    /\ ev.verify.username = Amy
    /\ resp = EndResponse("too_many_failed_attempts", "login")
    /\ sessions["c1"].login_attempts = 3

(***************************************************************************)
(* C3: a session that three failed logins ended is terminal: it handles no *)
(* later input of its connection, so it never becomes authenticated.       *)
(***************************************************************************)
C3_EndedSessionIsTerminal ==
    \A c \in DOMAIN sessions :
        ghost[c].fails >= max_login_attempts => ~sessions[c].authenticated

(***************************************************************************)
(* SpecRegister: one connection that logs in, fails to, and registers      *)
(***************************************************************************)
RegisterInputs == { Empty, Bob, Amy, GoodPassword, Yes }

RegisterTimes == { 0, login_timeout + 1 }

MaxRegisterInputs == 8

InitRegister == InitWith({ Registered(Bob, GoodPassword) })

NextRegister ==
    NextWeb({ "c1" }, RegisterInputs, RegisterTimes, MaxRegisterInputs, 0, FALSE)

SpecRegister == InitRegister /\ [][NextRegister]_vars

\* an authenticated session has a username, and the username has a row
C1_Authenticated ==
    \A c \in DOMAIN sessions :
        sessions[c].authenticated =>
            /\ sessions[c].username # None
            /\ sessions[c].username \in DOMAIN db.users

\* the session of c is authenticated after the step and was not before it
BecomesAuthenticated(c) ==
    /\ c \in DOMAIN sessions'
    /\ sessions'[c].authenticated
    /\ ~(c \in DOMAIN sessions /\ sessions[c].authenticated)

\* the step is an input of c in which verify_user or create_user returned True
\* for the username the session now has
C1_SetByCheck ==
    \A c \in Conns :
        BecomesAuthenticated(c) =>
            /\ ev'.kind = "input"
            /\ ev'.conn = c
            /\ \/ /\ ev'.verify.called
                  /\ ev'.verify.result
                  /\ ev'.verify.username = sessions'[c].username
                  /\ verify_user(db, ev'.verify.username, ev'.verify.password)
               \/ /\ ev'.create.called
                  /\ ev'.create.result
                  /\ ev'.create.username = sessions'[c].username
                  /\ ev'.create.username \notin DOMAIN db.users

(***************************************************************************)
(* C1: in every reachable state an authenticated web session has a         *)
(* username that names a row of the users table, and a session becomes     *)
(* authenticated only in a step in which verify_user or create_user        *)
(* returned True for that username.                                        *)
(***************************************************************************)
C1_AuthenticatedByCheck == []C1_Authenticated /\ [][C1_SetByCheck]_vars

\* a registration that has just created the account and authenticated the session
C1_Witness ==
    /\ "c1" \in DOMAIN sessions
    /\ sessions["c1"].authenticated
    /\ sessions["c1"].username = Amy
    /\ ev.create.called
    /\ ev.create.result
    /\ Amy \in DOMAIN db.users

(***************************************************************************)
(* SpecScenario: one connection, its inputs followed along the             *)
(* registration scenario                                                   *)
(***************************************************************************)
ScenarioInputs == { Empty, Amy, DropPassword, GoodPassword, Yes }

ScenarioTimes == { 0, 1 }

MaxScenarioInputs == 8

InitScenario == InitWith({ Registered(Bob, GoodPassword) })

NextScenario ==
    NextWeb({ "c1" }, ScenarioInputs, ScenarioTimes, MaxScenarioInputs, 0, TRUE)

SpecScenario == InitScenario /\ [][NextScenario]_vars

\* the session of c is a fresh one that was given exactly the inputs of the scenario
RegistrationScenario(c) ==
    /\ ghost[c].scenario.on
    /\ ghost[c].scenario.step = ScenarioLength

(***************************************************************************)
(* C9: a fresh session given '', a valid unregistered username u, a        *)
(* password, Y at the registration offer, a policy-compliant password, a   *)
(* real name and a location ends authenticated as u in the main menu with  *)
(* a users row for u; before the last input it is not authenticated and u  *)
(* has no row.                                                             *)
(***************************************************************************)
C9_RegistrationCompletes ==
    \A c \in DOMAIN sessions :
        RegistrationScenario(c) =>
            /\ sessions[c].authenticated
            /\ sessions[c].username = ghost[c].scenario.user
            /\ sessions[c].current_menu = "main"
            /\ ghost[c].scenario.user \in DOMAIN db.users
            /\ ~ghost[c].scenario.authenticated_before
            /\ ~ghost[c].scenario.row_before

\* the scenario run to its end by a session that is authenticated
C9_Completed ==
    /\ "c1" \in DOMAIN sessions
    /\ RegistrationScenario("c1")
    /\ ev.kind = "input"
    /\ sessions["c1"].authenticated

(***************************************************************************)
(* SpecMenu: one connection that logs in and uses the main menu; the last  *)
(* input of the session is kept                                            *)
(***************************************************************************)
MenuInputs ==
    { Empty, Bob, GoodPassword, Quit, QuitLower, ExitMixed, Logoff, ByeMixed,
      QuitPadded, Quits, TimeLower, HelpLower, Stats }

MenuTimes == { 0, 1 }

MaxMenuInputs == 5

InitMenu == InitWith({ Registered(Bob, GoodPassword) })

NextMenu == NextWeb({ "c1" }, MenuInputs, MenuTimes, MaxMenuInputs, 1, FALSE)

SpecMenu == InitMenu /\ [][NextMenu]_vars

\* the last step was an input of c that an authenticated session handled in its
\* main menu
MainMenuInput(c) ==
    /\ ev.kind = "input"
    /\ ev.conn = c
    /\ ev.handler = "main"
    /\ sessions[c].authenticated

\* the command typed: the input without the blanks around it, in upper case
TypedCommand(c) == upper(strip(ghost[c].hist[1].input))

QuitWords ==
    { << "Q" >>, << "Q", "U", "I", "T" >>, << "E", "X", "I", "T" >>,
      << "L", "O", "G", "O", "F", "F" >>, << "B", "Y", "E" >> }

(***************************************************************************)
(* C10: in the main menu of an authenticated session each of Q, QUIT,      *)
(* EXIT, LOGOFF and BYE, in any letter case, is answered with              *)
(* session_ended set, a farewell and menu main, and leaves current_menu as *)
(* it was; no other main-menu command is answered with session_ended set.  *)
(***************************************************************************)
C10_QuitCommandsEnd ==
    \A c \in Conns :
        MainMenuInput(c) =>
            /\ resp.session_ended <=> TypedCommand(c) \in QuitWords
            /\ resp.session_ended =>
                  /\ resp.output = "goodbye"
                  /\ resp.menu = "main"
                  /\ sessions[c].current_menu = "main"

\* a quit word in mixed case, answered with the farewell
C10_Witness ==
    /\ MainMenuInput("c1")
    /\ ghost["c1"].hist[1].input = ByeMixed
    /\ resp = EndResponse("goodbye", "main")
    /\ sessions["c1"].current_menu = "main"

(***************************************************************************)
(* SpecExpire: two connections of one address, and the instants at which   *)
(* the idle time-out is met and passed (the login time-out and the sweep   *)
(* interval are passed at both)                                            *)
(***************************************************************************)
ExpireInputs == { Empty, Bob, GoodPassword }

ExpireTimes == { 0, idle_timeout, idle_timeout + 1 }

MaxExpireInputs == 5

InitExpire == InitWith({ Registered(Bob, GoodPassword) })

NextExpire == NextWeb(Conns, ExpireInputs, ExpireTimes, MaxExpireInputs, 0, FALSE)

SpecExpire == InitExpire /\ [][NextExpire]_vars

\* the last step was an input of c, whose stored session had timed out
StaleInput(c) ==
    /\ ev.kind = "input"
    /\ ev.conn = c
    /\ ev.stale

(***************************************************************************)
(* C8: an input for a connection whose stored session has timed out is     *)
(* never processed by that session: the entry is replaced by a fresh       *)
(* session, which processes the input, so that afterwards the session is   *)
(* what a new session is after its first input: not authenticated, no      *)
(* username, menu login, no failed attempt, no step data.                  *)
(***************************************************************************)
C8_StaleSessionReplaced ==
    \A c \in Conns :
        StaleInput(c) =>
            /\ ev.fresh
            /\ c \in DOMAIN sessions
            /\ sessions[c] =
                  [NewSession(AddrOf(c), now) EXCEPT
                      !.login_step = IF ev.limited THEN "unset" ELSE "username"]
            /\ resp = IF ev.limited THEN Response("rate_limit_exceeded", "login")
                      ELSE Response("banner", "login")

\* an authenticated session that timed out between two sweeps, replaced by the
\* validity check of process_input
C8_Witness ==
    /\ StaleInput("c1")
    /\ ev.stale_authenticated
    /\ last_cleanup < now
    /\ ~sessions["c1"].authenticated
    /\ resp.output = "banner"

(***************************************************************************)
(* SpecLimiter: the RateLimiter alone, called in any order for an address  *)
(***************************************************************************)
LimiterAddrs == { "10.0.0.1" }

\* the instants of the calls: a command sample of 0 leaves its window at the
\* second, and a failure sample and a lockout of the second leave at the third
LimiterTimes == { 0, COMMAND_WINDOW, COMMAND_WINDOW + LOGIN_WINDOW }

\* the instants at which commands arrive
CommandTimes == { 0, COMMAND_WINDOW }

MaxCommands == 30

MaxFailures == 6

\* RateLimiter.record_command(a)
RecordCommand(a) ==
    /\ now \in CommandTimes
    /\ Len(CommandSamples(a)) < MaxCommands
    /\ rl' = record_command(rl, a, now)
    /\ ev' = [NoEvent EXCEPT !.kind = "record_command", !.addr = a]
    /\ UNCHANGED << now, sessions, last_cleanup, db, resp, ghost, sock, accounts, handlers,
                    active_sessions, peer >>

\* RateLimiter.record_login_attempt(a, success)
RecordLoginAttempt(a, success) ==
    /\ Len(FailureSamples(a)) < MaxFailures
    /\ rl' = record_login_attempt(rl, a, success, now)
    /\ ev' = [NoEvent EXCEPT !.kind = "record_login_attempt", !.addr = a,
                             !.success = success,
                             !.after_success =
                                 /\ ev.kind = "record_login_attempt"
                                 /\ ev.addr = a
                                 /\ ev.success]
    /\ UNCHANGED << now, sessions, last_cleanup, db, resp, ghost, sock, accounts, handlers,
                    active_sessions, peer >>

\* RateLimiter.is_rate_limited(a)
IsRateLimited(a) ==
    /\ rl' = is_rate_limited(rl, a, now).rl
    /\ ev' = [NoEvent EXCEPT !.kind = "is_rate_limited", !.addr = a,
                             !.limited = is_rate_limited(rl, a, now).limited]
    /\ UNCHANGED << now, sessions, last_cleanup, db, resp, ghost, sock, accounts, handlers,
                    active_sessions, peer >>

InitLimiter == InitWith({ NewDatabase })

NextLimiter ==
    \/ \E a \in LimiterAddrs : RecordCommand(a)
    \/ \E a \in LimiterAddrs, success \in BOOLEAN : RecordLoginAttempt(a, success)
    \/ \E a \in LimiterAddrs : IsRateLimited(a)
    \/ \E t \in LimiterTimes : Tick(t)

SpecLimiter == InitLimiter /\ [][NextLimiter]_vars

\* the samples of a list taken less than width seconds before now
InWindow(samples, width) ==
    Cardinality({ k \in 1..Len(samples) : now - samples[k][1] < width })

CommandsInWindow(a) == InWindow(CommandSamples(a), 60)

FailuresInWindow(a) == InWindow(FailureSamples(a), 300)

HasLockout(a) == a \in DOMAIN rl.lockouts

\* now < lockout_until[a]
LockoutActive(a) == HasLockout(a) /\ now < rl.lockouts[a]

\* what is_rate_limited(a) returns when called now
LimitedNow(a) == is_rate_limited(rl, a, now).limited

(***************************************************************************)
(* C4: after any sequence of record_command, record_login_attempt and      *)
(* is_rate_limited calls, at every time and for every address,             *)
(* is_rate_limited(a) returns true if and only if now < lockout_until[a],  *)
(* or a has 30 or more command samples in the trailing 60 s, or a has 5 or *)
(* more failed-login samples in the trailing 300 s.                        *)
(***************************************************************************)
C4_LimitedIff ==
    \A a \in LimiterAddrs :
        LET stated == \/ LockoutActive(a)
                      \/ CommandsInWindow(a) >= 30
                      \/ FailuresInWindow(a) >= 5
        IN  /\ LimitedNow(a) <=> stated
            /\ ev.kind = "is_rate_limited" /\ ev.addr = a => (ev.limited <=> stated)

\* a call that returned true for the command rate alone
C4_Witness ==
    /\ ev.kind = "is_rate_limited"
    /\ ev.limited
    /\ ~LockoutActive(ev.addr)
    /\ CommandsInWindow(ev.addr) >= 30
    /\ FailuresInWindow(ev.addr) < 5

\* the last call was record_login_attempt(a, False)
FailureRecorded(a) ==
    /\ ev.kind = "record_login_attempt"
    /\ ev.addr = a
    /\ ~ev.success

\* no command and no failure was recorded since the lockout of a was set
NothingSinceLockout(a) ==
    /\ \A k \in 1..Len(CommandSamples(a)) :
           CommandSamples(a)[k][1] <= rl.lockouts[a] - 300
    /\ \A k \in 1..Len(FailureSamples(a)) :
           FailureSamples(a)[k][1] <= rl.lockouts[a] - 300

C5_Lockout ==
    \A a \in LimiterAddrs :
        /\ FailureRecorded(a) /\ FailuresInWindow(a) >= 5 =>
               HasLockout(a) /\ rl.lockouts[a] = now + 300
        /\ LockoutActive(a) => LimitedNow(a)
        /\ HasLockout(a) /\ now >= rl.lockouts[a] /\ NothingSinceLockout(a) =>
               ~LimitedNow(a)

\* a lockout is set or moved only by a failure that is the 5th or later of its window
C5_SetByFifthFailure ==
    \A a \in LimiterAddrs :
        (/\ a \in DOMAIN rl'.lockouts
         /\ a \in DOMAIN rl.lockouts => rl'.lockouts[a] # rl.lockouts[a])
        => /\ ev'.kind = "record_login_attempt"
           /\ ev'.addr = a
           /\ ~ev'.success
           /\ InWindow(rl'.login_attempts[a], 300) >= 5

(***************************************************************************)
(* C5: record_login_attempt(a, false) that is the 5th or a later failure   *)
(* of a in the trailing 300 s sets lockout_until[a] to now + 300; from     *)
(* then on is_rate_limited(a) is true at every time before lockout_until,  *)
(* and with no further samples false at and after it; fewer than 5         *)
(* failures in a 300 s window never set a lockout.                         *)
(***************************************************************************)
C5_LockoutByFifthFailure == []C5_Lockout /\ [][C5_SetByFifthFailure]_vars

\* the failure that sets the lockout
C5_Witness ==
    /\ FailureRecorded("10.0.0.1")
    /\ FailuresInWindow("10.0.0.1") >= 5
    /\ HasLockout("10.0.0.1")
    /\ rl.lockouts["10.0.0.1"] = now + 300

(***************************************************************************)
(* SpecBurst: one connection that sends enough inputs to be throttled, by  *)
(* the command rate and by a lockout, an hour after its first ones         *)
(***************************************************************************)
BurstInputs == { Empty, Bob }

\* the first instant, the last at which its samples are kept, and the next
BurstTimes == { 0, RETENTION - 1, RETENTION }

\* the instants at which a username or a password is typed
TypingTimes == { 0 }

MaxBurstInputs == 32

InitBurst == InitWith({ Registered(Bob, GoodPassword) })

NextBurst ==
    \/ \E i \in BurstInputs, salt \in Salts :
          /\ i # Empty => now \in TypingTimes
          /\ Len(CommandSamples(AddrOf("c1"))) < MaxBurstInputs
          /\ ProcessInput("c1", i, salt, 0, FALSE)
    \/ Disconnect("c1")
    \/ \E t \in BurstTimes : Tick(t)

SpecBurst == InitBurst /\ [][NextBurst]_vars

\* the step is an input of c that process_input refused as rate-limited
Throttled(c) ==
    /\ ev'.kind = "input"
    /\ ev'.conn = c
    /\ ev'.limited

\* the session that was handed the input: the stored one, or a new one
Handed(c) == IF ev'.fresh THEN NewSession(AddrOf(c), now) ELSE sessions[c]

\* the response is the notice; the session changes in last_activity only; the
\* tables and the lockouts do not change
ThrottledFrame(c) ==
    /\ resp' = Response("rate_limit_exceeded", Handed(c).current_menu)
    /\ sessions'[c] = [Handed(c) EXCEPT !.last_activity = now]
    /\ db' = db
    /\ rl'.lockouts = rl.lockouts

\* the samples of a list that are less than an hour old
Kept(samples) == SelectSeq(samples, LAMBDA x : now - x[1] < 3600)

(***************************************************************************)
(* C6: an input for a session whose address is rate-limited is answered    *)
(* with the throttling notice, and leaves the session (menu, sub-steps,    *)
(* step data, username, authenticated flag, login attempt count), the      *)
(* users, messages and login_log tables and the rate limiter's windows     *)
(* unchanged; only last_activity changes.                                  *)
(***************************************************************************)
C6_ThrottledChangesNothing ==
    [][\A c \in Conns : Throttled(c) => ThrottledFrame(c) /\ rl' = rl]_vars

(***************************************************************************)
(* C6, amended: as above, except that the windows of the address lose the  *)
(* samples that are 3600 s old or older (is_rate_limited prunes them       *)
(* before it counts the commands, unless a lockout is active).             *)
(***************************************************************************)
C6_ThrottledOnlyPrunes ==
    [][\A c \in Conns :
          Throttled(c) =>
              /\ ThrottledFrame(c)
              /\ DOMAIN rl'.command_counts = DOMAIN rl.command_counts
              /\ DOMAIN rl'.login_attempts = DOMAIN rl.login_attempts
              /\ \A a \in DOMAIN rl.command_counts :
                    rl'.command_counts[a] =
                        IF a = AddrOf(c) /\ ~LockedOut(rl, a, now)
                        THEN Kept(rl.command_counts[a]) ELSE rl.command_counts[a]
              /\ \A a \in DOMAIN rl.login_attempts :
                    rl'.login_attempts[a] =
                        IF a = AddrOf(c) /\ ~LockedOut(rl, a, now)
                        THEN Kept(rl.login_attempts[a]) ELSE rl.login_attempts[a]]_vars

\* an input refused for the command rate alone, an hour after the first sample
C6_Witness ==
    /\ ev.kind = "input"
    /\ ev.limited
    /\ resp.output = "rate_limit_exceeded"
    /\ ~LockoutActive(ev.addr)
    /\ now = RETENTION
    /\ Len(CommandSamples(ev.addr)) = MAX_COMMANDS_PER_MINUTE

(***************************************************************************)
(* SpecSocket: one client of the socket server                             *)
(***************************************************************************)
\* the thread waits in a recv_line
Waiting == sock.pc \in { "username", "password", "offer", "real_name", "location",
                         "command", "door", "help" }

SocketContext(k, salt) ==
    [k |-> k, db |-> db, rl |-> rl, t |-> now, salt |-> salt, create |-> NoCreate]

SocketEvent(kind, create) ==
    [NoEvent EXCEPT !.kind = kind, !.addr = SocketAddr, !.create = create]

\* SecureBBSServer.start accepts a connection, and BBSSession.run runs up to the
\* first recv_line
SocketAccept(most) ==
    /\ sock.pc \in { "none", "closed" }
    /\ sock.serial < most
    /\ LET check == is_rate_limited(rl, SocketAddr, now)
           y     == login_sequence(
                        [SocketContext(NewBBSSession(now, sock.serial + 1), "salt1")
                            EXCEPT !.rl = check.rl])
       IN  IF check.limited
           THEN /\ sock' = [NoSocket EXCEPT !.pc = "closed", !.serial = sock.serial + 1]
                /\ rl' = check.rl
                /\ db' = db
           ELSE /\ sock' = y.k
                /\ rl' = y.rl
                /\ db' = y.db
    /\ ev' = SocketEvent("socket_accept", NoCreate)
    /\ UNCHANGED << now, sessions, last_cleanup, resp, ghost, accounts, handlers,
                    active_sessions, peer >>

\* recv_line returns a line of the client, stripped, and the thread runs on
SocketReceive(line, salt, most) ==
    /\ Waiting
    /\ now - sock.waiting_since <= recv_timeout
    /\ Len(CommandSamples(SocketAddr)) < most
    /\ LET y == resume(SocketContext([sock EXCEPT !.last_activity = now], salt),
                       strip(line))
       IN  /\ sock' = y.k
           /\ rl' = y.rl
           /\ db' = y.db
           /\ ev' = SocketEvent("socket_receive", y.create)
           /\ accounts' = Created(accounts, y.create)
    /\ UNCHANGED << now, sessions, last_cleanup, resp, ghost, handlers, active_sessions, peer >>

\* recv raises socket.timeout after 300 s without data: recv_line returns None
SocketTimeout ==
    /\ Waiting
    /\ now - sock.waiting_since >= recv_timeout
    /\ LET y == resume(SocketContext(sock, "salt1"), None)
       IN  /\ sock' = y.k
           /\ rl' = y.rl
           /\ db' = y.db
           /\ ev' = SocketEvent("socket_timeout", y.create)
           /\ accounts' = Created(accounts, y.create)
    /\ UNCHANGED << now, sessions, last_cleanup, resp, ghost, handlers, active_sessions, peer >>

\* the client closes the connection: recv returns b'', recv_line returns None
SocketHangup ==
    /\ Waiting
    /\ LET y == resume(SocketContext(sock, "salt1"), None)
       IN  /\ sock' = y.k
           /\ rl' = y.rl
           /\ db' = y.db
           /\ ev' = SocketEvent("socket_hangup", y.create)
           /\ accounts' = Created(accounts, y.create)
    /\ UNCHANGED << now, sessions, last_cleanup, resp, ghost, handlers, active_sessions, peer >>

\* time.sleep(5) of main_menu returns
SocketWake ==
    /\ sock.pc = "sleep"
    /\ now >= sock.wake
    /\ LET y == main_menu(SocketContext(sock, "salt1"))
       IN  /\ sock' = y.k
           /\ rl' = y.rl
           /\ db' = y.db
           /\ ev' = SocketEvent("socket_wake", y.create)
           /\ accounts' = Created(accounts, y.create)
    /\ UNCHANGED << now, sessions, last_cleanup, resp, ghost, handlers, active_sessions, peer >>

SocketInputs == { Bob, Amy, GoodPassword, Yes, TimeLower }

\* the instants at which the client types
SocketTypingTimes == { 0 }

SocketTimes == { 0, sleep_seconds, COMMAND_WINDOW, recv_timeout, idle_timeout + 1 }

MaxSocketCommands == 31

MaxConnections == 1

InitSocket == InitWith({ Registered(Bob, GoodPassword) })

NextSocket ==
    \/ SocketAccept(MaxConnections)
    \/ \E line \in SocketInputs, salt \in Salts :
          /\ now \in SocketTypingTimes
          /\ SocketReceive(line, salt, MaxSocketCommands)
    \/ SocketTimeout
    \/ SocketHangup
    \/ SocketWake
    \/ \E t \in SocketTimes : Tick(t)

SpecSocket == InitSocket /\ [][NextSocket]_vars

\* the server has just ended the session because no input came
EndedForInactivity ==
    /\ ev.kind \in { "socket_timeout", "socket_wake" }
    /\ sock.pc = "closed"

(***************************************************************************)
(* C7: a session is invalid exactly when its idle time is strictly greater *)
(* than 1800 s, or it is unauthenticated and its idle time is strictly     *)
(* greater than 300 s; in particular an authenticated session that has     *)
(* been idle for at most 1800 s is still valid and is not ended.           *)
(***************************************************************************)
C7_AuthenticatedKeptUntilIdle ==
    sock.authenticated /\ now - sock.last_activity <= 1800 => ~EndedForInactivity

\* the last step was the quit command of c's authenticated session, answered
\* with session_ended
QuitAnswered(c) ==
    /\ MainMenuInput(c)
    /\ resp.session_ended

(***************************************************************************)
(* C11: a session is destroyed on logout: after the quit command of an     *)
(* authenticated session was answered with session_ended, the session      *)
(* table no longer holds that session, so the next input of the connection *)
(* is handled by a fresh session and not as the authenticated user.        *)
(***************************************************************************)
C11_LogoutDestroysSession ==
    [][\A c \in Conns :
          QuitAnswered(c) /\ ev'.kind = "input" /\ ev'.conn = c =>
              /\ ev'.fresh
              /\ ev'.handler = "login"]_vars

(***************************************************************************)
(* SpecDatabase: create_user and verify_user, called by a web session and  *)
(* called directly (as the socket server and the tools do) before the      *)
(* first web session is opened                                             *)
(***************************************************************************)
DatabaseUsers == { Bob, Amy }

DatabasePasswords == { GoodPassword, OtherPassword }

DatabaseInputs == { Empty, Bob, OtherPassword, Yes }

DatabaseTimes == { 0, 1 }

MaxDatabaseInputs == 7

\* no web session has been opened yet
BeforeSessions == sessions = << >> /\ rl = NewRateLimiter /\ now = 0

\* BBSDatabase.create_user(username, password)
CreateUser(username, password, salt) ==
    /\ BeforeSessions
    /\ LET made == create_user(db, username, password, << >>, << >>, salt)
        note == [called |-> TRUE, username |-> username, password |-> password,
                 result |-> made.ok]
       IN  /\ db' = made.db
           /\ ev' = [NoEvent EXCEPT !.kind = "create_user", !.create = note]
           /\ accounts' = Created(accounts, note)
    /\ UNCHANGED << now, sessions, last_cleanup, rl, resp, ghost, sock, handlers,
                    active_sessions, peer >>

\* BBSDatabase.verify_user(username, password): a SELECT
VerifyUser(username, password) ==
    /\ BeforeSessions
    /\ ev' = [NoEvent EXCEPT !.kind = "verify_user",
                              !.verify = [called   |-> TRUE,
                                          username |-> username,
                                          password |-> password,
                                          result   |-> verify_user(db, username, password)]]
    /\ UNCHANGED << now, sessions, last_cleanup, db, rl, resp, ghost, sock, accounts, handlers,
                    active_sessions, peer >>

InitDatabase == InitWith({ NewDatabase, Registered(Bob, GoodPassword) })

NextDatabase ==
    \/ \E u \in DatabaseUsers, p \in DatabasePasswords, salt \in Salts :
          CreateUser(u, p, salt)
    \/ \E u \in DatabaseUsers, p \in DatabasePasswords : VerifyUser(u, p)
    \/ NextWeb({ "c1" }, DatabaseInputs, DatabaseTimes, MaxDatabaseInputs, 0, FALSE)

SpecDatabase == InitDatabase /\ [][NextDatabase]_vars

\* the credentials of a row
Credentials(row) == << row.password_hash, row.salt >>

\* the last step called create_user for a username that had a row / had none
CreatedDuplicate(u) ==
    /\ ev'.create.called
    /\ ev'.create.username = u
    /\ u \in DOMAIN db.users

CreatedNew(u) ==
    /\ ev'.create.called
    /\ ev'.create.username = u
    /\ u \notin DOMAIN db.users

C12_CreateUserStep ==
    /\ \A u \in DatabaseUsers :
          /\ CreatedDuplicate(u) =>
                /\ ~ev'.create.result
                /\ db'.users = db.users
          /\ CreatedNew(u) =>
                /\ ev'.create.result
                /\ DOMAIN db'.users = DOMAIN db.users \cup { u }
                /\ Cardinality(DOMAIN db'.users) = Cardinality(DOMAIN db.users) + 1
                /\ \A v \in DOMAIN db.users :
                      Credentials(db'.users[v]) = Credentials(db.users[v])
    /\ \A v \in DOMAIN db.users :
          /\ v \in DOMAIN db'.users
          /\ Credentials(db'.users[v]) = Credentials(db.users[v])

(***************************************************************************)
(* C12: create_user for a username that has a row returns false and leaves *)
(* the existing row and the number of rows unchanged; for a username with  *)
(* no row it returns true and adds exactly one row; so no step, and no     *)
(* registration attempt in particular, changes the credentials of an       *)
(* existing user.                                                          *)
(***************************************************************************)
C12_DuplicateRefused == [][C12_CreateUserStep]_vars

\* a registration of the web session for a username that has a row was refused
C12_Witness ==
    /\ ev.kind = "input"
    /\ ev.create.called
    /\ ~ev.create.result
    /\ ev.create.username = Bob
    /\ ev.create.password = OtherPassword
    /\ Credentials(db.users[Bob]) = << pbkdf2_hmac(GoodPassword, "salt0"), "salt0" >>

\* the step calls verify_user(u, p)
Verified(u, p) ==
    /\ ev'.verify.called
    /\ ev'.verify.username = u
    /\ ev'.verify.password = p

C13_VerifyUserStep ==
    /\ \A u \in DatabaseUsers, p \in DatabasePasswords :
          Verified(u, p) =>
             (ev'.verify.result <=> u \in DOMAIN db.users /\ accounts[u] = p)
    /\ ev'.kind = "verify_user" => db' = db

(***************************************************************************)
(* C13: verify_user(u, p) returns true if and only if u has a row and p is *)
(* the password given to the create_user call that made the row; it        *)
(* returns false for a username without a row and modifies no table.       *)
(***************************************************************************)
C13_VerifyUserExact == [][C13_VerifyUserStep]_vars

\* verify_user accepted the password of a row made during the run, and the
\* other password was not the one given
C13_Witness ==
    /\ ev.kind = "verify_user"
    /\ ev.verify.result
    /\ ev.verify.username = Amy
    /\ ev.verify.password = OtherPassword
    /\ db.users[Amy].salt = "salt1"
    /\ ~verify_user(db, Amy, GoodPassword)
    /\ ~verify_user(db, Bob, OtherPassword)

(***************************************************************************)
(* SpecPolicy: either a web session or a client of the socket server, on a  *)
(* database that is empty or holds a row of an earlier run, logging in and *)
(* registering with usernames and passwords inside and outside the         *)
(* policies                                                                *)
(***************************************************************************)
PolicyInputs == { Empty, Amy, UnderscoreBob, GoodPassword, Yes }

PolicyLines == { Amy, UnderscoreBob, GoodPassword, Yes }

MaxPolicyInputs == 7

MaxPolicyCommands == 1

InitPolicy == InitWith({ NewDatabase, Registered(Amy, OtherPassword) })

NextPolicy ==
    \/ \E i \in PolicyInputs, salt \in Salts :
          /\ sock.pc = "none"
          /\ Len(CommandSamples(AddrOf("c1"))) < MaxPolicyInputs
          /\ ProcessInput("c1", i, salt, 0, FALSE)
    \/ sessions = << >> /\ SocketAccept(MaxConnections)
    \/ \E line \in PolicyLines, salt \in Salts :
          SocketReceive(line, salt, MaxPolicyCommands)
    \/ SocketHangup

SpecPolicy == InitPolicy /\ [][NextPolicy]_vars

\* the last step inserted a users row
RowInserted == ev.create.called /\ ev.create.result

(***************************************************************************)
(* C14: every row inserted into users through a session of the web or the  *)
(* socket front end has a username that validate_username accepts and was  *)
(* created with a password that validate_password accepts.                 *)
(***************************************************************************)
C14_RowsMeetPolicy ==
    /\ RowInserted =>
          /\ validate_username(ev.create.username)
          /\ validate_password(ev.create.password)
    /\ \A u \in DOMAIN db.users :
          /\ validate_username(u)
          /\ validate_password(accounts[u])

\* the socket session inserted a row after a registration with a password
\* outside the policy had been refused
C14_Witness ==
    /\ RowInserted
    /\ ev.kind = "socket_receive"
    /\ ev.create.username = Amy
    /\ ev.create.password = GoodPassword
    /\ sock.attempt > 0
    /\ Len(db.login_log) > 0

(***************************************************************************)
(* SpecLongPost: one user who logs in, opens the message area and composes *)
(* messages with long body lines                                           *)
(***************************************************************************)
\* what the user types at the prompt the session shows
LongPostTyped(s) ==
    CASE s.current_menu = "login" ->
            IF s.login_step = "username" THEN { Bob }
            ELSE IF s.login_step = "password" THEN { GoodPassword }
            ELSE { Empty }
      [] s.current_menu = "main" -> { MessagesKey }
      [] s.current_menu = "messages" ->
            IF s.message_state # "post" THEN { Empty, PostKey }
            ELSE IF s.temp_message.step = "body" THEN { LongLine, EndLower, CancelLower }
            ELSE { Hello, CancelLower }
      [] OTHER -> { Empty }

MaxLongPostInputs == 19

InitLongPost == InitWith({ Registered(Bob, GoodPassword) })

NextLongPost ==
    \E i \in Texts, salt \in Salts :
        /\ Len(CommandSamples(AddrOf("c1"))) < MaxLongPostInputs
        /\ i \in (IF "c1" \in DOMAIN sessions THEN LongPostTyped(sessions["c1"])
                  ELSE { Empty })
        /\ ProcessInput("c1", i, salt, 0, FALSE)

SpecLongPost == InitLongPost /\ [][NextLongPost]_vars

(***************************************************************************)
(* C15: the cumulative body length of a composition is capped at 1000      *)
(* characters: a line that would make it exceed 1000 is not kept, so every *)
(* stored body has at most 1000 characters and every stored subject at     *)
(* most 100.                                                               *)
(***************************************************************************)
C15_BodyCapped ==
    /\ \A c \in DOMAIN sessions :
          TotalLength(sessions[c].temp_message.body_lines) <= MAX_BODY
    /\ \A k \in 1..Len(db.messages) :
          /\ Len(db.messages[k].body) <= MAX_BODY
          /\ Len(db.messages[k].subject) <= MAX_SUBJECT

(***************************************************************************)
(* SpecPost: one user who logs in, opens the message area, chooses an      *)
(* area, composes, cancels and posts messages; the INSERT of a post may    *)
(* fail; the inputs of the session are kept                                *)
(***************************************************************************)
\* what the user types at the prompt the session shows
PostTyped(s) ==
    CASE s.current_menu = "login" ->
            IF s.login_step = "username" THEN { Bob }
            ELSE IF s.login_step = "password" THEN { GoodPassword }
            ELSE { Empty }
      [] s.current_menu = "main" -> { MessagesKey }
      [] s.current_menu = "messages" ->
            IF s.message_state # "post" THEN { Empty, PostKey, AreaTwo }
            ELSE IF s.temp_message.step = "body" THEN { World, EndLower, CancelLower }
            ELSE { Hello, CancelLower }
      [] OTHER -> { Empty }

MaxPostInputs == 12

InitPost == InitWith({ Registered(Bob, GoodPassword) })

\* the session is in a composition
Composing(c) ==
    /\ c \in DOMAIN sessions
    /\ sessions[c].current_menu = "messages"
    /\ sessions[c].message_state = "post"

\* an input of the user; the INSERT of an END typed in a composition may fail
NextPost ==
    \E i \in Texts, salt \in Salts, fault \in { NoFault, "insert_message" } :
        /\ Len(CommandSamples(AddrOf("c1"))) < MaxPostInputs
        /\ i \in (IF "c1" \in DOMAIN sessions THEN PostTyped(sessions["c1"])
                  ELSE { Empty })
        /\ fault # NoFault => Composing("c1") /\ i = EndLower
        /\ ProcessInputWith("c1", i, salt, MaxPostInputs, FALSE, fault)

SpecPost == InitPost /\ [][NextPost]_vars

\* the step is an input that c's session takes as the END of a composition whose
\* subject and body are not empty
PostEnds(c) ==
    /\ ev'.kind = "input"
    /\ ev'.conn = c
    /\ ~ev'.fresh
    /\ ~ev'.limited
    /\ Composing(c)
    /\ sessions[c].temp_message.step = "body"
    /\ upper(sanitize_input(ghost'[c].hist[Len(ghost'[c].hist)].input)) = EndWord
    /\ GetOrEmpty(sessions[c].temp_message.subject) # << >>
    /\ JoinLines(sessions[c].temp_message.body_lines) # << >>

\* the step adds one row, made of what c's session had composed
PostStored(c) ==
    LET n == Len(db.messages)
    IN  /\ Len(db'.messages) = n + 1
        /\ SubSeq(db'.messages, 1, n) = db.messages
        /\ db'.messages[n + 1].from_user = sessions[c].username
        /\ db'.messages[n + 1].message_area = sessions[c].message_area
        /\ db'.messages[n + 1].subject = sessions[c].temp_message.subject
        /\ db'.messages[n + 1].body = JoinLines(sessions[c].temp_message.body_lines)

\* the step begins a composition of c's session
CompositionBegins(c) ==
    /\ ~Composing(c)
    /\ c \in DOMAIN sessions'
    /\ sessions'[c].current_menu = "messages"
    /\ sessions'[c].message_state = "post"

C16_PostStep ==
    /\ IF PostEnds("c1") /\ ev'.fault = NoFault THEN PostStored("c1")
       ELSE db'.messages = db.messages
    /\ CompositionBegins("c1") =>
          /\ sessions'["c1"].temp_message.subject = Absent
          /\ sessions'["c1"].temp_message.body_lines = << >>

(***************************************************************************)
(* C16: posting is all-or-nothing: END of a composition whose subject and  *)
(* body are not empty adds exactly one row, with the session's username    *)
(* and area and the composed subject and body; END with an empty body,     *)
(* CANCEL, a storage error and every other step add no row; and a          *)
(* composition begins with no subject and no body lines of an earlier one. *)
(***************************************************************************)
C16_PostAllOrNothing == [][C16_PostStep]_vars

\* a message was posted to the second area after an earlier composition had been
\* cancelled
C16_Witness ==
    /\ Len(db.messages) = 1
    /\ db.messages[1].message_area = "Gaming"
    /\ db.messages[1].subject = Hello
    /\ db.messages[1].body = World
    /\ db.messages[1].from_user = Bob
    /\ resp.output = "message_posted"
    /\ \E k \in 1..Len(ghost["c1"].hist) : ghost["c1"].hist[k].input = CancelLower

(***************************************************************************)
(* SpecList: one user who posts messages to the General area, with or       *)
(* without a second passing between two posts, and lists the area           *)
(***************************************************************************)
\* "LIMIT 20"
LIST_LIMIT == 20

\* the rows of an area, by their position in the table
AreaRows(d, area) ==
    { i \in 1..Len(d.messages) : d.messages[i].message_area = area }

\* SELECT ... WHERE message_area = ? ORDER BY posted_at DESC LIMIT 20: the results
\* the statement may return; rows of equal posted_at come in an order the
\* statement does not fix
Listings(d, area) ==
    LET rows == AreaRows(d, area)
        n    == IF Cardinality(rows) < LIST_LIMIT THEN Cardinality(rows) ELSE LIST_LIMIT
        at(i) == d.messages[i].posted_at
    IN  { L \in [1..n -> rows] :
            /\ \A j, k \in 1..n : j < k => L[j] # L[k] /\ at(L[j]) >= at(L[k])
            /\ \A r \in rows : (\A j \in 1..n : L[j] # r) => \A j \in 1..n : at(L[j]) >= at(r) }

\* what the user types at the prompt the session shows
ListTyped(s) ==
    CASE s.current_menu = "login" ->
            IF s.login_step = "username" THEN { Bob }
            ELSE IF s.login_step = "password" THEN { GoodPassword }
            ELSE { Empty }
      [] s.current_menu = "main" -> { MessagesKey }
      [] s.current_menu = "messages" ->
            IF s.message_state = "post"
            THEN IF s.temp_message.step # "body" THEN { Hello, World }
                 ELSE IF s.temp_message.body_lines = << >> THEN { World }
                 ELSE { EndLower }
            ELSE IF s.post_continue THEN { Empty }
            ELSE IF s.message_state = "view" THEN { PostKey }
            ELSE { PostKey, ReadKey }
      [] OTHER -> { Empty }

ListTimes == { 1 }

MaxListInputs == 15

InitList == InitWith({ Registered(Bob, GoodPassword) })

NextList ==
    \/ \E i \in Texts, salt \in Salts :
          /\ Len(CommandSamples(AddrOf("c1"))) < MaxListInputs
          /\ i \in (IF "c1" \in DOMAIN sessions THEN ListTyped(sessions["c1"])
                    ELSE { Empty })
          /\ ProcessInput("c1", i, salt, 0, FALSE)
    \/ \E t \in ListTimes : Composing("c1") /\ Tick(t)

SpecList == InitList /\ [][NextList]_vars

\* the session of c has just been shown the list of its area
Listed(c) ==
    /\ ev.kind = "input"
    /\ ev.conn = c
    /\ c \in DOMAIN sessions
    /\ resp.output = "message_list"

(***************************************************************************)
(* C17: message ids are strictly increasing in posting order, and whenever *)
(* an area is listed, the list is most-recent-first: its first entry is    *)
(* the message posted last to the area, and every entry was posted after   *)
(* the entries that follow it.                                             *)
(***************************************************************************)
C17_ListedMostRecentFirst ==
    /\ \A i, j \in 1..Len(db.messages) :
          i < j => db.messages[i].id < db.messages[j].id
    /\ Listed("c1") =>
          \A L \in Listings(db, sessions["c1"].message_area) :
             /\ \A j, k \in DOMAIN L : j < k => db.messages[L[j]].id > db.messages[L[k]].id
             /\ \A r \in AreaRows(db, sessions["c1"].message_area) : L[1] >= r

(***************************************************************************)
(* SpecSweep: two connections that log in and fall idle, and calls of       *)
(* cleanup_sessions on their own, at times around the cleanup interval and  *)
(* the login timeout                                                        *)
(***************************************************************************)
SweepInputs == { Empty, Bob, GoodPassword }

SweepTimes == { 0, cleanup_interval, cleanup_interval + 1, 2 * cleanup_interval }

MaxSweepInputs == 4

InitSweep == InitWith({ Registered(Bob, GoodPassword) })

\* WebBBSManager.cleanup_sessions()
CleanupSessions ==
    LET swept == cleanup_sessions(sessions, last_cleanup, now)
    IN  /\ sessions' = swept.sessions
        /\ last_cleanup' = swept.last_cleanup
        /\ ev' = [NoEvent EXCEPT !.kind = "cleanup",
                                  !.swept = DOMAIN sessions \ DOMAIN swept.sessions]
        /\ UNCHANGED << now, db, rl, resp, ghost, sock, accounts, handlers,
                        active_sessions, peer >>

NextSweep ==
    \/ CleanupSessions
    \/ \E c \in Conns, i \in SweepInputs, salt \in Salts :
          /\ Len(CommandSamples(AddrOf(c))) < MaxSweepInputs
          /\ ProcessInput(c, i, salt, 0, FALSE)
    \/ \E t \in SweepTimes : Tick(t)

SpecSweep == InitSweep /\ [][NextSweep]_vars

\* the step calls cleanup_sessions: on its own, or first thing in process_input
CleanupCalled == ev'.kind \in { "cleanup", "input" }

\* the sessions of the table that the caller of the step does not go on to use
Others(table) ==
    [k \in (IF ev'.kind = "input" THEN DOMAIN table \ { ev'.conn } ELSE DOMAIN table)
        |-> table[k]]

\* the call is made less than cleanup_interval after last_cleanup was set
WithinInterval == now - last_cleanup < cleanup_interval

C18_SweepStep ==
    CleanupCalled =>
        /\ WithinInterval => last_cleanup' = last_cleanup /\ Others(sessions') = Others(sessions)
        /\ ~WithinInterval => last_cleanup' = now

(***************************************************************************)
(* C18: the eviction sweep is time-guarded: a cleanup_sessions call made   *)
(* less than 300 s after last_cleanup was set (by the previous sweep or by *)
(* the construction of the manager) changes neither the session table nor  *)
(* last_cleanup, and a call that scans sets last_cleanup to the time of    *)
(* the call, so that of two calls less than 300 s apart at most one scans. *)
(***************************************************************************)
C18_SweepTimeGuarded == [][C18_SweepStep]_vars

\* a call on its own was skipped while the table held a session that is not valid
C18_Witness ==
    /\ ev.kind = "cleanup"
    /\ now - last_cleanup < cleanup_interval
    /\ last_cleanup > 0
    /\ \E k \in DOMAIN sessions : ~is_session_valid(sessions[k], now)

C19_SweepStep ==
    CleanupCalled /\ ~WithinInterval =>
        Others(sessions') =
            [k \in { j \in DOMAIN Others(sessions) : is_session_valid(sessions[j], now) }
                |-> sessions[k]]

(***************************************************************************)
(* C19: a sweep that runs removes from the session table exactly the       *)
(* sessions for which is_session_valid() is false at that moment: every    *)
(* valid session stays with its state unchanged and no invalid session     *)
(* remains.                                                                *)
(***************************************************************************)
C19_SweepRemovesInvalid == [][C19_SweepStep]_vars

\* a sweep on its own has removed a session and kept another
C19_Witness ==
    /\ ev.kind = "cleanup"
    /\ ev.swept # {}
    /\ DOMAIN sessions # {}

(***************************************************************************)
(* SpecThreads: the event handlers of app.py run in threads of their own,   *)
(* and the statements of WebBBSManager that read or write self.sessions are *)
(* the steps of a thread.  A bbs_input or bbs_connect event runs            *)
(* process_input; a bbs_disconnect event runs end_session.                  *)
(***************************************************************************)
ThreadInputs == { Empty, Bob }

ThreadTimes == { 0, cleanup_interval + 1 }

MaxEvents == 3

InitThreads == InitWith({ Registered(Bob, GoodPassword) })

Thread(h) == handlers.th[h]

\* the thread goes on to pc with the changes of its local variables
Goto(h, pc, changes) ==
    [handlers EXCEPT !.th[h] = [changes EXCEPT !.pc = pc]]

\* the table loses its entry for k; the object stays on the heap
Dropped(hs, k) ==
    [hs EXCEPT !.heap = DictSet(@, hs.oid[k], sessions[k]),
               !.oid  = [j \in DOMAIN hs.oid \ { k } |-> hs.oid[j]]]

\* the table gets a new WebBBSSession for k, over the entry it may have
Stored(hs, k) ==
    LET kept == IF k \in DOMAIN sessions THEN Dropped(hs, k) ELSE hs
    IN  [kept EXCEPT !.oid = DictSet(@, k, hs.made + 1), !.made = hs.made + 1]

\* the session object a thread holds
Object(oid) ==
    IF \E k \in DOMAIN handlers.oid : handlers.oid[k] = oid
    THEN sessions[CHOOSE k \in DOMAIN handlers.oid : handlers.oid[k] = oid]
    ELSE handlers.heap[oid]

\* an exception leaves the handler
Raise(h, name) ==
    /\ handlers' = Goto(h, "idle", NoThread)
    /\ ev' = [NoEvent EXCEPT !.kind = name, !.conn = Thread(h).conn]
    /\ UNCHANGED << now, sessions, last_cleanup, db, rl, resp, ghost, sock, accounts,
                    active_sessions, peer >>

\* an event arrives and a thread starts its handler
HandlerStart(h, kind, c, user_input) ==
    /\ Thread(h).pc = "idle"
    /\ handlers.events < MaxEvents
    /\ handlers' = [Goto(h, IF kind = "input" THEN "cleanup" ELSE "end_test",
                         [NoThread EXCEPT !.kind = kind, !.conn = c, !.input = user_input])
                       EXCEPT !.events = @ + 1]
    /\ ev' = [NoEvent EXCEPT !.kind = "start", !.conn = c]
    /\ UNCHANGED << now, sessions, last_cleanup, db, rl, resp, ghost, sock, accounts,
                    active_sessions, peer >>

\* cleanup_sessions: "now = time.time()", the guard, and the iterator of
\* self.sessions.items()
CleanupGuard(h) ==
    /\ Thread(h).pc = "cleanup"
    /\ handlers' =
          IF CleanupSkipped(now - last_cleanup)
          THEN Goto(h, "test", Thread(h))
          ELSE Goto(h, "next", [Thread(h) EXCEPT !.t0 = now,
                                                 !.size = Cardinality(DOMAIN sessions),
                                                 !.keys = DOMAIN sessions])
    /\ ev' = [NoEvent EXCEPT !.kind = "step", !.conn = Thread(h).conn]
    /\ UNCHANGED << now, sessions, last_cleanup, db, rl, resp, ghost, sock, accounts,
                    active_sessions, peer >>

\* one turn of "for session_id, session in self.sessions.items()": the iterator
\* raises RuntimeError when the size of the dict is not the one it started with
SweepNext(h) ==
    /\ Thread(h).pc = "next"
    /\ IF Cardinality(DOMAIN sessions) # Thread(h).size
       THEN Raise(h, "RuntimeError")
       ELSE /\ IF DOMAIN sessions \ Thread(h).visited = {}
               THEN handlers' = Goto(h, "del", Thread(h))
               ELSE \E k \in DOMAIN sessions \ Thread(h).visited :
                       handlers' =
                          Goto(h, "next",
                               [Thread(h) EXCEPT
                                  !.visited = @ \cup { k },
                                  !.expired = IF is_session_valid(sessions[k], now) THEN @
                                              ELSE @ \cup { k }])
            /\ ev' = [NoEvent EXCEPT !.kind = "step", !.conn = Thread(h).conn]
            /\ UNCHANGED << now, sessions, last_cleanup, db, rl, resp, ghost, sock,
                            accounts, active_sessions, peer >>

\* one turn of "for session_id in expired_sessions: del self.sessions[session_id]",
\* and "self.last_cleanup = now" after the last
SweepDelete(h) ==
    /\ Thread(h).pc = "del"
    /\ IF Thread(h).expired = {}
       THEN /\ last_cleanup' = Thread(h).t0
            /\ handlers' = Goto(h, "test", Thread(h))
            /\ ev' = [NoEvent EXCEPT !.kind = "step", !.conn = Thread(h).conn]
            /\ UNCHANGED << now, sessions, db, rl, resp, ghost, sock, accounts,
                            active_sessions, peer >>
       ELSE \E k \in Thread(h).expired :
               IF k \notin DOMAIN sessions THEN Raise(h, "KeyError")
               ELSE /\ sessions' = end_session(sessions, k)
                    /\ handlers' =
                          [Dropped(handlers, k) EXCEPT
                             !.th[h].expired = @ \ { k }, !.th[h].keys = @ \ { k }]
                    /\ ev' = [NoEvent EXCEPT !.kind = "step", !.conn = Thread(h).conn]
                    /\ UNCHANGED << now, last_cleanup, db, rl, resp, ghost, sock,
                                    accounts, active_sessions, peer >>

\* get_or_create_session: "if session_id not in self.sessions"
Test(h) ==
    /\ Thread(h).pc = "test"
    /\ handlers' = Goto(h, IF Thread(h).conn \notin DOMAIN sessions THEN "store" ELSE "get",
                        Thread(h))
    /\ ev' = [NoEvent EXCEPT !.kind = "step", !.conn = Thread(h).conn]
    /\ UNCHANGED << now, sessions, last_cleanup, db, rl, resp, ghost, sock, accounts,
                    active_sessions, peer >>

\* get_or_create_session: "self.sessions[session_id] = WebBBSSession(...)"
Store(h) ==
    LET c == Thread(h).conn
    IN  /\ Thread(h).pc = "store"
        /\ sessions' = DictSet(sessions, c, NewSession(AddrOf(c), now))
        /\ handlers' = [Stored(handlers, c) EXCEPT
                          !.th[h].pc = "get",
                          !.overwritten = @ \/ c \in DOMAIN sessions]
        /\ ev' = [NoEvent EXCEPT !.kind = "step", !.conn = c]
        /\ UNCHANGED << now, last_cleanup, db, rl, resp, ghost, sock, accounts,
                        active_sessions, peer >>

\* get_or_create_session: "return self.sessions[session_id]"
Get(h) ==
    LET c == Thread(h).conn
    IN  /\ Thread(h).pc = "get"
        /\ IF c \notin DOMAIN sessions THEN Raise(h, "KeyError")
           ELSE /\ handlers' = Goto(h, "valid", [Thread(h) EXCEPT !.oid = handlers.oid[c]])
                /\ ev' = [NoEvent EXCEPT !.kind = "step", !.conn = c]
                /\ UNCHANGED << now, sessions, last_cleanup, db, rl, resp, ghost, sock,
                                accounts, active_sessions, peer >>

\* process_input: "if not session.is_session_valid()" and the replacement
Valid(h) ==
    LET c == Thread(h).conn
    IN  /\ Thread(h).pc = "valid"
        /\ IF is_session_valid(Object(Thread(h).oid), now)
           THEN /\ handlers' = Goto(h, "process", Thread(h))
                /\ UNCHANGED sessions
           ELSE /\ sessions' = DictSet(sessions, c, NewSession(AddrOf(c), now))
                /\ handlers' = [Stored(handlers, c) EXCEPT
                                  !.th[h].pc = "process",
                                  !.th[h].oid = handlers.made + 1]
        /\ ev' = [NoEvent EXCEPT !.kind = "step", !.conn = c]
        /\ UNCHANGED << now, last_cleanup, db, rl, resp, ghost, sock, accounts,
                        active_sessions, peer >>

\* process_input: "return session.process_input(user_input)", on the object the
\* thread holds, which the table may no longer refer to
Process(h, salt) ==
    LET c    == Thread(h).conn
        oid  == Thread(h).oid
        held == c \in DOMAIN handlers.oid /\ handlers.oid[c] = oid
        x    == session_process_input(
                    [s |-> Object(oid), db |-> db, rl |-> rl, t |-> now, salt |-> salt,
                     resp |-> NoResponse, verify |-> NoVerify, create |-> NoCreate,
                     limited |-> FALSE, handler |-> "none", fault |-> NoFault,
                     raised |-> FALSE],
                    Thread(h).input)
    IN  /\ Thread(h).pc = "process"
        /\ sessions' = IF held THEN DictSet(sessions, c, x.s) ELSE sessions
        /\ handlers' = [Goto(h, "idle", NoThread) EXCEPT
                          !.heap = IF held THEN @ ELSE DictSet(@, oid, x.s)]
        /\ db' = x.db
        /\ rl' = x.rl
        /\ resp' = x.resp
        /\ ev' = [NoEvent EXCEPT !.kind = "input", !.conn = c, !.addr = AddrOf(c),
                                  !.limited = x.limited, !.handler = x.handler,
                                  !.verify = x.verify, !.create = x.create]
        /\ accounts' = Created(accounts, x.create)
        /\ UNCHANGED << now, last_cleanup, ghost, sock, active_sessions, peer >>

\* end_session: "if session_id in self.sessions"
EndTest(h) ==
    /\ Thread(h).pc = "end_test"
    /\ handlers' = Goto(h, IF Thread(h).conn \in DOMAIN sessions THEN "end_del" ELSE "idle",
                        IF Thread(h).conn \in DOMAIN sessions THEN Thread(h) ELSE NoThread)
    /\ ev' = [NoEvent EXCEPT !.kind = "step", !.conn = Thread(h).conn]
    /\ UNCHANGED << now, sessions, last_cleanup, db, rl, resp, ghost, sock, accounts,
                    active_sessions, peer >>

\* end_session: "del self.sessions[session_id]"
EndDelete(h) ==
    LET c == Thread(h).conn
    IN  /\ Thread(h).pc = "end_del"
        /\ IF c \notin DOMAIN sessions THEN Raise(h, "KeyError")
           ELSE /\ sessions' = end_session(sessions, c)
                /\ handlers' = [Dropped(handlers, c) EXCEPT !.th[h] = NoThread]
                /\ ev' = [NoEvent EXCEPT !.kind = "disconnect", !.conn = c]
                /\ UNCHANGED << now, last_cleanup, db, rl, resp, ghost, sock, accounts,
                                active_sessions, peer >>

NextThreads ==
    \/ \E h \in Handlers, c \in Conns, i \in ThreadInputs : HandlerStart(h, "input", c, i)
    \/ \E h \in Handlers, c \in Conns : HandlerStart(h, "disconnect", c, Empty)
    \/ \E h \in Handlers : CleanupGuard(h)
    \/ \E h \in Handlers : SweepNext(h)
    \/ \E h \in Handlers : SweepDelete(h)
    \/ \E h \in Handlers : Test(h)
    \/ \E h \in Handlers : Store(h)
    \/ \E h \in Handlers : Get(h)
    \/ \E h \in Handlers : Valid(h)
    \/ \E h \in Handlers, salt \in Salts : Process(h, salt)
    \/ \E h \in Handlers : EndTest(h)
    \/ \E h \in Handlers : EndDelete(h)
    \/ \E t \in ThreadTimes : Tick(t)

SpecThreads == InitThreads /\ [][NextThreads]_vars

\* the thread is between the creation of the sweep's iterator and its last delete
InSweep(h) == Thread(h).pc \in { "next", "del" }

\* the thread is between a test of the table and the store or delete that the test
\* decided
InTestAndSet(h) == Thread(h).pc \in { "store", "end_del" }

InsideTable(h) == InSweep(h) \/ InTestAndSet(h)

(***************************************************************************)
(* C20: all accesses to the shared session table are mutually exclusive:   *)
(* no two handlers are at the same time inside an access of the table (a   *)
(* sweep, or a test with the store or delete it decides); while a sweep    *)
(* iterates and deletes, no other handler inserts into or deletes from the *)
(* table; and no handler stores a new session for a connection id over one *)
(* that another handler stored since it tested the table.                  *)
(***************************************************************************)
C20_TableAccessExclusive ==
    /\ \A h1, h2 \in Handlers : h1 # h2 => ~(InsideTable(h1) /\ InsideTable(h2))
    /\ \A h \in Handlers : InSweep(h) => DOMAIN sessions = Thread(h).keys
    /\ ~handlers.overwritten

(***************************************************************************)
(* SpecRace: two connections that register the same username at the same    *)
(* time: each is told that the login is invalid, accepts the offer and      *)
(* walks through the registration steps, in any interleaving                *)
(***************************************************************************)
\* what the user types at the prompt the session shows
RaceTyped(s) ==
    CASE s.current_menu = "login" ->
            IF s.login_step = "username" THEN { Amy }
            ELSE IF s.login_step = "password" THEN { OtherPassword }
            ELSE IF s.login_step = "register_offer" THEN { Yes }
            ELSE { Empty }
      [] s.current_menu = "register" ->
            IF s.registration_state.step = "password" THEN { GoodPassword }
            ELSE IF s.registration_state.step = "real_name" THEN { Empty, Amy }
            ELSE { Empty, Hello }
      [] OTHER -> { Empty }

MaxRaceInputs == 16

InitRace == InitWith({ Registered(Bob, GoodPassword) })

NextRace ==
    \E c \in Conns, i \in Texts, salt \in Salts :
        /\ Len(CommandSamples(AddrOf(c))) < MaxRaceInputs
        /\ i \in (IF c \in DOMAIN sessions THEN RaceTyped(sessions[c]) ELSE { Empty })
        /\ ProcessInput(c, i, salt, 2, FALSE)

SpecRace == InitRace /\ [][NextRace]_vars

\* the step is an input of c that calls create_user
CreateCalled(c) ==
    /\ ev'.kind = "input"
    /\ ev'.conn = c
    /\ ev'.create.called

C21_RaceStep ==
    \A c \in Conns :
        CreateCalled(c) =>
            LET u == ev'.create.username
            IN  /\ ev'.create.result <=> u \notin DOMAIN db.users
                /\ u \in DOMAIN db'.users
                /\ ev'.create.result =>
                      /\ sessions'[c].authenticated
                      /\ sessions'[c].username = u
                      /\ db'.users[u].password_hash[2] = ev'.create.password
                /\ ~ev'.create.result =>
                      /\ ~sessions'[c].authenticated
                      /\ db'.users = db.users

(***************************************************************************)
(* C21: of the create_user calls that sessions make for one username, the  *)
(* one that finds no row returns true and adds the row, and every other    *)
(* returns false and leaves the users table as it is, so that exactly one  *)
(* call returns true and one row exists; the session whose create_user     *)
(* returned false is not authenticated.                                    *)
(***************************************************************************)
C21_OneRegistrationWins == [][C21_RaceStep]_vars

\* the session of c2 reached its last registration step while the username had
\* no row, the create_user of c1 returned true in between, and the create_user of
\* c2 has just returned false
C21_Witness ==
    /\ ev.kind = "input"
    /\ ev.conn = "c2"
    /\ ev.create.called
    /\ ~ev.create.result
    /\ ev.create.username = Amy
    /\ Len(ghost["c2"].hist) = 2
    /\ Amy \notin ghost["c2"].hist[1].registered
    /\ Amy \in ghost["c2"].hist[2].registered
    /\ "c1" \in DOMAIN sessions
    /\ sessions["c1"].authenticated
    /\ sessions["c1"].username = Amy
    /\ ~sessions["c2"].authenticated


\* the session of c is at a step that asks for the username
AtUsernameStep(s) ==
    \/ s.current_menu = "login" /\ s.login_step = "username"
    \/ s.current_menu = "register" /\ s.registration_state.step = "username"

C23_FailedStep ==
    \A c \in Conns :
        /\ CreateCalled(c) /\ ~ev'.create.result =>
              /\ ~sessions'[c].authenticated
              /\ resp'.output = "registration_failed"
              /\ AtUsernameStep(sessions'[c])
        /\ /\ ev.kind = "input"
           /\ ev.conn = c
           /\ ev.create.called
           /\ ~ev.create.result
           /\ CreateCalled(c)
           => \/ ev'.create.username # ev.create.username
              \/ ev'.create.password # ev.create.password

(***************************************************************************)
(* C23: when create_user returns false at the end of the registration      *)
(* flow, the session stays unauthenticated, the response reports that the  *)
(* registration failed, the session is back at a username step, and the    *)
(* next input of the session does not call create_user again with the same *)
(* username and password.                                                  *)
(***************************************************************************)
C23_FailedRegistrationRestarts == [][C23_FailedStep]_vars


\* nothing that counts or records a failed login has changed
NoPenalty ==
    /\ db'.login_log = db.login_log
    /\ rl'.login_attempts = rl.login_attempts
    /\ rl'.lockouts = rl.lockouts

\* the web session of c is answered that the username it typed is invalid
C22_WebStep(c) ==
    /\ ev'.kind = "input"
    /\ ev'.conn = c
    /\ ev'.handler = "login"
    /\ resp'.output = "invalid_username"
    => /\ NoPenalty
       /\ ~resp'.session_ended
       /\ sessions'[c].current_menu = "login"
       /\ sessions'[c].login_step = "username"
       /\ ~ev'.fresh => sessions'[c].login_attempts = sessions[c].login_attempts

\* the socket session receives, at its username prompt, a line that
\* validate_username refuses
C22_SocketStep(line) ==
    /\ sock.pc = "username"
    /\ ~Falsy(strip(line))
    /\ ~validate_username(strip(line))
    /\ SocketReceive(line, "salt1", MaxPolicyCommands)
    => /\ NoPenalty
       /\ sock'.pc = "username"
       /\ sock'.attempt = sock.attempt

\* the web login flow on its own
C22_WebInvalidUsernameFree == [][C22_WebStep("c1")]_vars

(***************************************************************************)
(* C22: an invalid username entered at the login username step carries no *)
(* penalty and never terminates the session, in the web and in the socket  *)
(* login flow: the session stays at the username step, its count of failed *)
(* logins is unchanged, no audit row is written and the rate limiter gets  *)
(* no failure sample.                                                      *)
(***************************************************************************)
C22_InvalidUsernameFree ==
    [][C22_WebStep("c1") /\ \A line \in PolicyLines : C22_SocketStep(line)]_vars


(***************************************************************************)
(* SpecFault: one user who logs in with the right or a wrong password,     *)
(* registers, lists and posts messages, while any one storage call of an   *)
(* input may raise                                                         *)
(***************************************************************************)
\* what the user types at the prompt the session shows
FaultTyped(s) ==
    CASE s.current_menu = "login" ->
            IF s.login_step = "username" THEN { Bob, Amy }
            ELSE IF s.login_step = "password" THEN { GoodPassword, OtherPassword }
            ELSE IF s.login_step = "register_offer" THEN { Yes, No }
            ELSE { Empty }
      [] s.current_menu = "register" ->
            IF s.registration_state.step = "password" THEN { GoodPassword }
            ELSE { Empty }
      [] s.current_menu = "main" -> { MessagesKey }
      [] s.current_menu = "messages" ->
            IF s.message_state = "post"
            THEN IF s.temp_message.step # "body" THEN { Hello }
                 ELSE IF s.temp_message.body_lines = << >> THEN { World }
                 ELSE { EndLower }
            ELSE IF s.post_continue THEN { Empty }
            ELSE IF s.message_state = "view" THEN { PostKey }
            ELSE { PostKey, ReadKey }
      [] OTHER -> { Empty }

MaxFaultInputs == 8

InitFault == InitWith({ Registered(Bob, GoodPassword) })

\* an input of the user, during which the storage call fault raises if it is made
NextFault ==
    \E i \in Texts, salt \in Salts, fault \in Faults \cup { NoFault } :
        /\ Len(CommandSamples(AddrOf("c1"))) < MaxFaultInputs
        /\ i \in (IF "c1" \in DOMAIN sessions THEN FaultTyped(sessions["c1"])
                  ELSE { Empty })
        /\ ProcessInputWith("c1", i, salt, 0, FALSE, fault)

SpecFault == InitFault /\ [][NextFault]_vars

\* the step is an input of c whose password was verified and whose audit row
\* could not be written
AuditFailed(c) ==
    /\ ev'.kind = "input"
    /\ ev'.conn = c
    /\ ev'.fault = "log_login_attempt"
    /\ ev'.verify.called

C24_AuditStep ==
    \A c \in Conns :
        AuditFailed(c) =>
            /\ ~ev'.raised
            /\ ev'.verify.result =>
                  /\ resp' = Response("welcome_main_menu", "main")
                  /\ sessions'[c].authenticated
                  /\ sessions'[c].current_menu = "main"
            /\ ~ev'.verify.result =>
                  resp'.output \in { "invalid_login_register_offer",
                                     "too_many_failed_attempts" }

(***************************************************************************)
(* C24: a failure of log_login_attempt does not change the outcome of the  *)
(* login: after a correct password the input is answered with the main     *)
(* menu, the session authenticated and at the main menu; after a wrong      *)
(* password it is answered with the normal failure response; and the error  *)
(* does not leave process_input.                                            *)
(***************************************************************************)
C24_AuditFailureHarmless == [][C24_AuditStep]_vars

\* the responses with which a handler answers a storage error it caught
StorageErrorOutputs ==
    { "error_posting", "error_retrieving_messages", "error_reading_message" }

\* the step is an input of c's session during which a storage call raised
StorageRaised(c) ==
    /\ ev'.kind = "input"
    /\ ev'.conn = c
    /\ ~ev'.fresh
    /\ ev'.fault \in Faults \ { "log_login_attempt" }
    /\ ev'.raised \/ resp'.output \in StorageErrorOutputs

C25_FaultStep ==
    \A c \in Conns :
        StorageRaised(c) =>
            /\ ~ev'.raised
            /\ resp'.output \in StorageErrorOutputs
            /\ sessions'[c].current_menu = sessions[c].current_menu
            /\ sessions'[c].login_step = sessions[c].login_step
            /\ sessions'[c].registration_state.step = sessions[c].registration_state.step
            /\ sessions'[c].message_state = sessions[c].message_state
            /\ sessions'[c].authenticated = sessions[c].authenticated

(***************************************************************************)
(* C25: a storage call (verify_user, update_login, create_user, the INSERT *)
(* or a SELECT of messages) that raises during process_input is handled by *)
(* the session: the input is answered with a response that carries an      *)
(* error message, the exception does not reach the transport handler, and  *)
(* the session's menu, sub-step and authenticated flag are as before.      *)
(***************************************************************************)
C25_StorageFaultLocal == [][C25_FaultStep]_vars

\* the step is an input during which the INSERT or a SELECT of messages raised
MessageFault(c) ==
    /\ StorageRaised(c)
    /\ ev'.fault \in { "insert_message", "select_messages" }

\* the message handlers on their own: they catch the error and answer with it
C25_MessageFaultsCaught ==
    [][\A c \in Conns :
          MessageFault(c) => ~ev'.raised /\ resp'.output \in StorageErrorOutputs]_vars


(***************************************************************************)
(* SpecSanitize: SecurityValidator.sanitize_text, called with texts made   *)
(* of a few pieces: tags, URLs, keywords, separators, a line feed and a    *)
(* control character                                                       *)
(***************************************************************************)
ScriptOpen == << "<", "s", "c", "r", "i", "p", "t", ">" >>

ScriptClose == << "<", "/", "S", "c", "r", "i", "p", "t", ">" >>

SanitizePieces ==
    { ScriptOpen, ScriptClose, << "LF" >>, << "NUL" >>, << "x" >>, << " " >>,
      << "j", "a", "v", "a", "s", "c", "r", "i", "p", "t", ":" >>,
      << ".", ".", "/" >>, << "S", "e", "l", "e", "c", "t" >>,
      << "o", "n", "l", "o", "a", "d" >>, << "=" >>, << "&" >> }

MaxPieces == 3

\* a call sanitize_text(text, max_length) with the text of the call before and
\* one more piece; 0 stands for no max_length
SanitizeText(piece, max_length) ==
    /\ ev.pieces < MaxPieces
    /\ ev' = [NoEvent EXCEPT !.kind = "sanitize_text",
                             !.text = ev.text \o piece,
                             !.pieces = ev.pieces + 1,
                             !.sanitized = sanitize_text(ev.text \o piece, max_length)]
    /\ UNCHANGED << now, sessions, last_cleanup, db, rl, resp, ghost, sock, accounts,
                    handlers, active_sessions, peer >>

InitSanitize == InitWith({ NewDatabase })

NextSanitize ==
    \E piece \in SanitizePieces, max_length \in { 0, MAX_INPUT } :
        SanitizeText(piece, max_length)

SpecSanitize == InitSanitize /\ [][NextSanitize]_vars

\* a script tag begins at position i of t (t is lower case)
ScriptTagOpensAt(t, i) ==
    /\ MatchAt(t, i, << "<", "s", "c", "r", "i", "p", "t" >>)
    /\ \E j \in (i + 7)..Len(t) :
          /\ t[j] = ">"
          /\ \A m \in (i + 7)..(j - 1) : t[m] # ">"

\* the text contains a script tag, a javascript: or vbscript: URL, an event-handler
\* attribute, a ../ sequence or an SQL keyword followed by white space
ContainsBanned(text) ==
    LET t == lower(text)
    IN  \/ \E i \in 1..Len(t) : ScriptTagOpensAt(t, i)
        \/ Contains(t, << "j", "a", "v", "a", "s", "c", "r", "i", "p", "t", ":" >>)
        \/ Contains(t, << "v", "b", "s", "c", "r", "i", "p", "t", ":" >>)
        \/ \E i \in 1..Len(t) : EventHandlerAt(t, i)
        \/ Contains(t, << ".", ".", "/" >>)
        \/ \E i \in 1..Len(t) : SqlKeywordAt(t, i)

(***************************************************************************)
(* C26: for every text that contains a banned pattern, whatever surrounds  *)
(* it or lies inside it (line feeds and control characters included),      *)
(* sanitize_text returns exactly "[CONTENT FILTERED]".                     *)
(***************************************************************************)
C26_BannedAlwaysFiltered ==
    ev.kind = "sanitize_text" /\ ContainsBanned(ev.text) => ev.sanitized = FILTERED

\* a script element is filtered unless it lacks its closing tag or a line feed
\* lies between its tags; every other banned pattern is always filtered
C26_FilteredUnlessScriptTag ==
    /\ ev.kind = "sanitize_text"
    /\ ContainsBanned(ev.text)
    /\ ev.sanitized # FILTERED
    => LET t == lower(RemoveChars(ev.text, ControlChars))
       IN  /\ \E i \in 1..Len(t) : ScriptTagOpensAt(t, i)
           /\ \A i \in 1..Len(t) : ~ScriptTagAt(t, i)
           /\ ~Contains(ev.sanitized, << "<" >>)


(***************************************************************************)
(* SpecPassword: SecurityValidator.validate_password, called with a few    *)
(* passwords and with what a few edits make of them                        *)
(***************************************************************************)
\* a password with one lower-case letter
OneLower == << "A", "B", "C", "D", "E", "f", "1", "!" >>

\* a password of MAX_PASSWORD characters
LongPassword == GoodPassword \o [i \in 1..(MAX_PASSWORD - Len(GoodPassword)) |-> "x"]

PasswordBases == { << >>, GoodPassword, OneLower, LongPassword }

\* an upper-case letter, a lower-case letter, a digit, a special character and a
\* character of none of the four classes
PasswordChars == { "A", "b", "1", "!", "~" }

MaxEdits == 2

\* the texts one edit makes of text: its last character dropped, a character
\* appended, or one of its first characters replaced
Edits(text, chars, first) ==
    (IF text = << >> THEN {} ELSE { SubSeq(text, 1, Len(text) - 1) })
        \cup { Append(text, c) : c \in chars }
        \cup { [text EXCEPT ![i] = c] : i \in 1..Len(text) \cap 1..first, c \in chars }

\* a call validate_password(password)
ValidatePassword(password) ==
    /\ ev.pieces < MaxEdits
    /\ ev' = [NoEvent EXCEPT !.kind = "validate_password",
                             !.text = password,
                             !.pieces = IF ev.kind = "none" THEN 0 ELSE ev.pieces + 1,
                             !.accepted = validate_password(password)]
    /\ UNCHANGED << now, sessions, last_cleanup, db, rl, resp, ghost, sock, accounts,
                    handlers, active_sessions, peer >>

InitPassword == InitWith({ NewDatabase })

NextPassword ==
    \E password \in (IF ev.kind = "none" THEN PasswordBases
                     ELSE Edits(ev.text, PasswordChars, MIN_PASSWORD)) :
        ValidatePassword(password)

SpecPassword == InitPassword /\ [][NextPassword]_vars

\* some character of the text is of the class
HasOneOf(text, class) == \E i \in 1..Len(text) : text[i] \in class

C27_Policy(text) ==
    /\ text # << >>
    /\ Len(text) >= 8
    /\ Len(text) <= 128
    /\ HasOneOf(text, UpperChars)
    /\ HasOneOf(text, LowerChars)
    /\ HasOneOf(text, DigitChars)
    /\ HasOneOf(text, SpecialChars)

(***************************************************************************)
(* C27: validate_password accepts a password exactly when it is not empty, *)
(* has 8 to 128 characters and holds an upper-case letter, a lower-case    *)
(* letter, a digit and a special character; a password without one of the  *)
(* four classes is rejected and "Abcdef1!" is accepted.                    *)
(***************************************************************************)
C27_PasswordAcceptedIff ==
    ev.kind = "validate_password" =>
        /\ ev.accepted <=> C27_Policy(ev.text)
        /\ \A class \in { UpperChars, LowerChars, DigitChars, SpecialChars } :
              ~HasOneOf(ev.text, class) => ~ev.accepted
        /\ ev.text = << "A", "b", "c", "d", "e", "f", "1", "!" >> => ev.accepted

\* a password of 8 characters that lacks nothing but a special character has been
\* rejected
C27_Witness ==
    /\ ev.kind = "validate_password"
    /\ ev.text = << "A", "b", "c", "d", "e", "f", "1", "~" >>
    /\ ~ev.accepted


(***************************************************************************)
(* SpecUsername: SecurityValidator.validate_username, called with a few    *)
(* names and with what an edit makes of them                               *)
(***************************************************************************)
AdminName == << "a", "d", "m", "i", "n" >>

\* the word with the letters of some positions in upper case
CaseVariants(word) ==
    { [i \in 1..Len(word) |-> IF i \in S THEN UpperChar(word[i]) ELSE word[i]] :
        S \in SUBSET (1..Len(word)) }

\* a name of MAX_USERNAME characters
LongName == [i \in 1..MAX_USERNAME |-> "a"]

UsernameBases ==
    CaseVariants(AdminName)
        \cup { << >>, Bob, UnderscoreBob, LongName, << "b", "o" >>, << "U", "s", "e", "r" >> }

\* letters, a digit, the underscore, and characters outside [A-Za-z0-9_], of which
\* LF is the line feed
UsernameChars == { "a", "Z", "2", "_", "-", " ", "LF" }

MaxNameEdits == 1

\* a call validate_username(username)
ValidateUsername(username) ==
    /\ ev.pieces < MaxNameEdits
    /\ ev' = [NoEvent EXCEPT !.kind = "validate_username",
                             !.text = username,
                             !.pieces = IF ev.kind = "none" THEN 0 ELSE ev.pieces + 1,
                             !.accepted = validate_username(username)]
    /\ UNCHANGED << now, sessions, last_cleanup, db, rl, resp, ghost, sock, accounts,
                    handlers, active_sessions, peer >>

InitUsername == InitWith({ NewDatabase })

NextUsername ==
    \E username \in (IF ev.kind = "none" THEN UsernameBases
                     ELSE Edits(ev.text, UsernameChars, MAX_USERNAME)) :
        ValidateUsername(username)

SpecUsername == InitUsername /\ [][NextUsername]_vars

C28_Policy(text) ==
    /\ Len(text) >= 3
    /\ Len(text) <= 20
    /\ \A i \in 1..Len(text) : text[i] \in WordChars
    /\ text[1] \in UpperChars \cup LowerChars
    /\ lower(text) \notin
          { AdminName, << "r", "o", "o", "t" >>, << "s", "y", "s", "t", "e", "m" >>,
            << "s", "y", "s", "o", "p" >>, << "g", "u", "e", "s", "t" >>,
            << "a", "n", "o", "n", "y", "m", "o", "u", "s" >>, << "u", "s", "e", "r" >> }

C28_AcceptedIff ==
    /\ ev.accepted <=> C28_Policy(ev.text)
    /\ ev.text \in CaseVariants(AdminName) \cup { << "_", "b", "o", "b" >> } => ~ev.accepted
    /\ ev.text = << "b", "o", "b", "_", "2" >> => ev.accepted

(***************************************************************************)
(* C28: validate_username accepts a name exactly when it has 3 to 20       *)
(* characters, all of them in [A-Za-z0-9_], begins with a letter and is,   *)
(* in lower case, not a reserved name; every case variant of "admin" and   *)
(* "_bob" are rejected and "bob_2" is accepted.                            *)
(***************************************************************************)
C28_UsernameAcceptedIff == ev.kind = "validate_username" => C28_AcceptedIff

\* the same for the names that do not end with a line feed
C28_UsernameAcceptedIffNoLineFeed ==
    /\ ev.kind = "validate_username"
    /\ ev.text # << >> => ev.text[Len(ev.text)] # "LF"
    => C28_AcceptedIff


\* the step is a call record_login_attempt(a, success)
AttemptRecorded(a, success) ==
    /\ ev'.kind = "record_login_attempt"
    /\ ev'.addr = a
    /\ ev'.success = success

\* the failed-login samples of a in a rate limiter
FailuresOf(r, a) == IF a \in DOMAIN r.login_attempts THEN r.login_attempts[a] ELSE << >>

C29_AttemptStep ==
    \A a \in LimiterAddrs :
        /\ AttemptRecorded(a, TRUE) =>
              /\ FailuresOf(rl', a) = FailuresOf(rl, a)
              /\ rl'.lockouts = rl.lockouts
              /\ rl'.command_counts = rl.command_counts
        /\ AttemptRecorded(a, FALSE) /\ InWindow(FailuresOf(rl, a), 300) >= 4 =>
              /\ a \in DOMAIN rl'.lockouts
              /\ rl'.lockouts[a] = now + 300

(***************************************************************************)
(* C29: record_login_attempt(a, true) leaves the failed-login samples and  *)
(* the lockout of a as they were, so that the failures recorded before a   *)
(* success still count: a failure that finds 4 failures of the trailing    *)
(* 300 s sets the lockout whether or not a success came in between, and a  *)
(* success during a lockout does not lift it.                              *)
(***************************************************************************)
C29_SuccessKeepsFailures == [][C29_AttemptStep]_vars

\* 4 failures, then a success, then the failure that has just set the lockout, all
\* within 300 s
C29_Witness ==
    /\ FailureRecorded("10.0.0.1")
    /\ ev.after_success
    /\ Len(FailureSamples("10.0.0.1")) = 5
    /\ FailuresInWindow("10.0.0.1") = 5
    /\ HasLockout("10.0.0.1")
    /\ rl.lockouts["10.0.0.1"] = now + 300


(***************************************************************************)
(* SpecPrune: the RateLimiter with two addresses, over more than an hour:  *)
(* a few commands of each, the failed logins of one and the calls of       *)
(* is_rate_limited                                                          *)
(***************************************************************************)
PruneAddrs == { "10.0.0.1", "10.0.0.2" }

PruneTimes == { 0, COMMAND_WINDOW, RETENTION, RETENTION + COMMAND_WINDOW }

\* the instants at which a login fails
FailureTimes == { COMMAND_WINDOW, RETENTION + COMMAND_WINDOW }

MaxPruneSamples == 2

InitPrune == InitWith({ NewDatabase })

NextPrune ==
    \/ \E a \in PruneAddrs :
          Len(CommandSamples(a)) < MaxPruneSamples /\ RecordCommand(a)
    \/ now \in FailureTimes /\ RecordLoginAttempt("10.0.0.1", FALSE)
    \/ \E a \in PruneAddrs : IsRateLimited(a)
    \/ \E t \in PruneTimes : Tick(t)

SpecPrune == InitPrune /\ [][NextPrune]_vars

\* the step is a call is_rate_limited(a)
LimitChecked(a) ==
    /\ ev'.kind = "is_rate_limited"
    /\ ev'.addr = a

(***************************************************************************)
(* C30: is_rate_limited(a) has no side effect: a call leaves the command   *)
(* samples, the failed-login samples and the lockout of every address as   *)
(* they were.                                                              *)
(***************************************************************************)
C30_SideEffectFree == [][\A a \in PruneAddrs : LimitChecked(a) => rl' = rl]_vars

\* the command samples of a in a rate limiter
CommandsOf(r, a) == IF a \in DOMAIN r.command_counts THEN r.command_counts[a] ELSE << >>

C30_CheckStep ==
    \A a \in PruneAddrs :
        LimitChecked(a) =>
            /\ rl'.lockouts = rl.lockouts
            /\ DOMAIN rl'.command_counts = DOMAIN rl.command_counts
            /\ DOMAIN rl'.login_attempts = DOMAIN rl.login_attempts
            /\ \A b \in PruneAddrs :
                  /\ CommandsOf(rl', b) =
                        IF b = a /\ ~LockedOut(rl, a, now)
                        THEN Kept(CommandsOf(rl, b)) ELSE CommandsOf(rl, b)
                  /\ FailuresOf(rl', b) =
                        IF b = a /\ ~LockedOut(rl, a, now)
                        THEN Kept(FailuresOf(rl, b)) ELSE FailuresOf(rl, b)
                  /\ Younger(CommandsOf(rl', b), now, 60)
                        = Younger(CommandsOf(rl, b), now, 60)
                  /\ Younger(FailuresOf(rl', b), now, 300)
                        = Younger(FailuresOf(rl, b), now, 300)
                  /\ \A t \in PruneTimes :
                        t >= now => is_rate_limited(rl', b, t).limited
                                       = is_rate_limited(rl, b, t).limited

(***************************************************************************)
(* C30, amended: a call is_rate_limited(a) adds no sample, sets and        *)
(* changes no lockout and leaves the samples of every other address as     *)
(* they were; unless a lockout of a is active it removes the command and   *)
(* failed-login samples of a that are 3600 s old or older.  The samples of *)
(* the trailing 60 s and 300 s, and the result of every later call, are    *)
(* the same as without the call.                                           *)
(***************************************************************************)
C30_CheckOnlyPrunes == [][C30_CheckStep]_vars

\* a call an hour after the first commands has removed the samples of its address
\* and left those of the other address
C30_Witness ==
    /\ ev.kind = "is_rate_limited"
    /\ now = RETENTION
    /\ ev.addr = "10.0.0.1"
    /\ "10.0.0.1" \in DOMAIN rl.command_counts
    /\ \A k \in 1..Len(CommandSamples("10.0.0.1")) : CommandSamples("10.0.0.1")[k][1] # 0
    /\ Len(FailureSamples("10.0.0.1")) >= MAX_LOGIN_ATTEMPTS
    /\ Len(CommandSamples("10.0.0.2")) = MaxPruneSamples
    /\ CommandSamples("10.0.0.2")[1][1] = 0


(***************************************************************************)
(* SpecDisconnect: two connections that log in, start a door game, send    *)
(* the bbs_disconnect event, and whose transport disconnects               *)
(***************************************************************************)
DisconnectInputs == { Empty, Bob, GoodPassword }

MaxDisconnectInputs == 6

\* handle_start_game, as far as the table of door games goes
HandleStartGame(c) ==
    /\ active_sessions' = active_sessions \cup { c }
    /\ ev' = [NoEvent EXCEPT !.kind = "start_game", !.conn = c]
    /\ UNCHANGED << now, sessions, last_cleanup, db, rl, resp, ghost, sock, accounts,
                    handlers, peer >>

\* handle_disconnect: the transport reports that the connection is gone
HandleDisconnect(c) ==
    /\ active_sessions' = active_sessions \ { c }
    /\ ev' = [NoEvent EXCEPT !.kind = "transport_disconnect", !.conn = c]
    /\ UNCHANGED << now, sessions, last_cleanup, db, rl, resp, ghost, sock, accounts,
                    handlers, peer >>

\* handle_bbs_disconnect: WebBBSManager.end_session(c), for any connection
HandleBbsDisconnect(c) ==
    /\ sessions' = end_session(sessions, c)
    /\ ev' = [NoEvent EXCEPT !.kind = "disconnect", !.conn = c]
    /\ UNCHANGED << now, last_cleanup, db, rl, resp, ghost, sock, accounts, handlers,
                    active_sessions, peer >>

InitDisconnect == InitWith({ Registered(Bob, GoodPassword) })

NextDisconnect ==
    \/ \E c \in Conns, i \in DisconnectInputs, salt \in Salts :
          /\ Len(CommandSamples(AddrOf(c))) < MaxDisconnectInputs
          /\ ProcessInput(c, i, salt, 0, FALSE)
    \/ \E c \in Conns : HandleStartGame(c)
    \/ \E c \in Conns : HandleDisconnect(c)
    \/ \E c \in Conns : HandleBbsDisconnect(c)

SpecDisconnect == InitDisconnect /\ [][NextDisconnect]_vars

\* end_session(c) removes the entry of c, if there is one, and nothing else
C31_EndSessionStep ==
    \A c \in Conns :
        ev'.kind = "disconnect" /\ ev'.conn = c =>
            /\ DOMAIN sessions' = DOMAIN sessions \ { c }
            /\ \A k \in DOMAIN sessions' : sessions'[k] = sessions[k]
            /\ c \notin DOMAIN sessions => sessions' = sessions

\* after the transport disconnect of c the table has no entry for c
C31_TransportStep ==
    \A c \in Conns :
        ev'.kind = "transport_disconnect" /\ ev'.conn = c => c \notin DOMAIN sessions'

(***************************************************************************)
(* C31: once the disconnect of a connection has been handled the session   *)
(* table has no entry for it; end_session(id) removes exactly the entry of *)
(* id, leaves every other entry as it was and does nothing for an id that  *)
(* is not in the table.                                                    *)
(***************************************************************************)
C31_DisconnectRemovesSession == [][C31_EndSessionStep /\ C31_TransportStep]_vars

\* end_session on its own
C31_EndSessionExact == [][C31_EndSessionStep]_vars


\* the rows of the later log are those of the earlier one, then n more
Appended(earlier, later, n) ==
    /\ Len(later) = Len(earlier) + n
    /\ SubSeq(later, 1, Len(earlier)) = earlier

\* the step appends the audit row of one password check
Audited(username, addr, success) ==
    /\ Appended(db.login_log, db'.login_log, 1)
    /\ db'.login_log[Len(db'.login_log)] =
          [username |-> username, ip_address |-> addr, success |-> success]

\* the step is an input of a web session during which verify_user was called
WebChecked == ev'.kind = "input" /\ ev'.verify.called

\* the socket session has made a password check that failed, and the iteration of
\* login_sequence that made it has not ended
SocketPending(k) == k.pc \in { "offer", "real_name", "location" }

\* the step is the password check of the socket session that logs the user in
SocketLoggedIn == sock.pc = "password" /\ sock'.authenticated

\* the step ends the iteration of login_sequence whose password check failed
SocketSettled == SocketPending(sock) /\ ~SocketPending(sock')

C32_WebAuditStep ==
    WebChecked => Audited(ev'.verify.username, ev'.addr, ev'.verify.result)

C32_AuditStep ==
    /\ C32_WebAuditStep
    /\ SocketLoggedIn => Audited(sock.typed_username, SocketAddr, TRUE)
    /\ SocketSettled => Audited(sock.typed_username, SocketAddr, FALSE)
    /\ ~(WebChecked \/ SocketLoggedIn \/ SocketSettled) => db'.login_log = db.login_log

(***************************************************************************)
(* C32: the login log is append-only and complete: every password check of *)
(* a web or socket session appends exactly one row with the entered        *)
(* username, the address of the session and the outcome of the check, also *)
(* a failed check that is followed by a successful registration; no step   *)
(* removes or changes a row.                                               *)
(***************************************************************************)
C32_AuditComplete == [][C32_AuditStep]_vars

\* the log is append-only, and complete for the web sessions
C32_WebAuditComplete ==
    [][/\ C32_WebAuditStep
       /\ \E n \in { 0, 1 } : Appended(db.login_log, db'.login_log, n)]_vars


\* the next input of the session is taken as a password
AtPasswordStep(s) ==
    \/ s.current_menu = "login" /\ s.login_step = "password"
    \/ s.current_menu = "register" /\ s.registration_state.step = "password"

\* the last step was an input of a connection whose session is still in the table
Answered == ev.kind = "input" /\ ~ev.raised /\ ev.conn \in DOMAIN sessions

(***************************************************************************)
(* C33: the response to an input has password_field = true exactly when    *)
(* the next input of the session is taken as a password (login step        *)
(* password, registration step password), the rate-limit notice and the    *)
(* too-many-failures response included.                                    *)
(***************************************************************************)
C33_PasswordFieldIff ==
    Answered => (resp.password_field <=> AtPasswordStep(sessions[ev.conn]))

\* the same for the responses other than the rate-limit notice and the
\* too-many-failures response
C33_PasswordFieldIffPrompted ==
    Answered /\ ~ev.limited /\ ~resp.session_ended
    => (resp.password_field <=> AtPasswordStep(sessions[ev.conn]))

\* a response with password_field = true is followed by a password
C33_PasswordFieldOnlyIf ==
    Answered /\ resp.password_field => AtPasswordStep(sessions[ev.conn])


\* the step is a call of the rate limiter for a
LimiterAccessed(a) ==
    /\ ev'.kind \in { "is_rate_limited", "record_command", "record_login_attempt" }
    /\ ev'.addr = a

\* no sample of the list was taken more than RETENTION seconds before now
NoneOlder(samples) == \A k \in 1..Len(samples) : now - samples[k][1] <= RETENTION

\* the samples of the earlier list that are less than RETENTION seconds old are
\* all in the later list, in their order
KeepsYoung(earlier, later) ==
    Younger(earlier, now, RETENTION) = Younger(later, now, RETENTION)

C34_AccessStep ==
    \A a \in PruneAddrs :
        LimiterAccessed(a) =>
            /\ NoneOlder(CommandsOf(rl', a))
            /\ NoneOlder(FailuresOf(rl', a))
            /\ ev'.kind = "is_rate_limited" =>
                  /\ KeepsYoung(CommandsOf(rl, a), CommandsOf(rl', a))
                  /\ KeepsYoung(FailuresOf(rl, a), FailuresOf(rl', a))
                  /\ is_rate_limited(rl', a, now).limited = ev'.limited
                  /\ CountRecent(FailuresOf(rl', a), now, LOGIN_WINDOW)
                        = CountRecent(FailuresOf(rl, a), now, LOGIN_WINDOW)

(***************************************************************************)
(* C34: after every access of the rate limiter for an address              *)
(* (is_rate_limited, record_command, record_login_attempt) neither list of *)
(* the address holds a sample older than 3600 s; pruning removes no sample *)
(* younger than that, and so changes neither the result of is_rate_limited *)
(* nor the count of the failures of the trailing 300 s.                    *)
(***************************************************************************)
C34_PrunedOnAccess == [][C34_AccessStep]_vars

\* is_rate_limited prunes when no lockout of the address is active
C34_PrunedByCheck ==
    [][\A a \in PruneAddrs :
          /\ ev'.kind = "is_rate_limited"
          /\ ev'.addr = a
          /\ ~LockedOut(rl, a, now)
          => /\ NoneOlder(CommandsOf(rl', a))
             /\ NoneOlder(FailuresOf(rl', a))
             /\ KeepsYoung(CommandsOf(rl, a), CommandsOf(rl', a))
             /\ KeepsYoung(FailuresOf(rl, a), FailuresOf(rl', a))]_vars


\* the menus behind the login
MemberMenus == { "main", "messages", "doors", "users", "help" }

\* the menu of the session agrees with its authentication
MenuMatches(s) ==
    /\ s.authenticated <=> s.current_menu \in MemberMenus
    /\ ~s.authenticated => s.current_menu \in { "login", "register" }
    /\ s.current_menu = "register" =>
          validate_username(GetOrEmpty(s.registration_state.username))

(***************************************************************************)
(* C35: after any sequence of inputs the menu of a web session is one of   *)
(* main, messages, doors, users, help exactly if the session is            *)
(* authenticated; an unauthenticated session is at login or register, and  *)
(* a session at register holds a non-empty username that validate_username *)
(* accepts.                                                                *)
(***************************************************************************)
C35_MenuIffAuthenticated == \A c \in DOMAIN sessions : MenuMatches(sessions[c])


(***************************************************************************)
(* SpecShare: two connections of the socket server from one address.  Each *)
(* has a thread of its own (secure_bbs.py 681) that runs login_sequence and *)
(* then the loop of main_menu, and both use the one RateLimiter.           *)
(***************************************************************************)
ShareTimes == { 0, COMMAND_WINDOW }

MaxShareCommands == 32

\* the session of the first or of the second connection
Share(first) == IF first THEN sock ELSE peer

\* the thread of the session is inside recv_line
Receiving(k) == k.pc \in { "username", "password", "offer", "real_name", "location",
                           "command", "door", "help" }

\* what the client types at the prompt the session is at
ShareTyped(k) ==
    IF k.pc = "username" THEN { Bob }
    ELSE IF k.pc = "password" THEN { GoodPassword }
    ELSE { TimeLower }

\* the thread of a session has run up to its next wait and is left as y
ShareStep(first, y, kind) ==
    /\ sock' = IF first THEN y.k ELSE sock
    /\ peer' = IF first THEN peer ELSE y.k
    /\ rl' = y.rl
    /\ db' = y.db
    /\ ev' = [SocketEvent(kind, y.create) EXCEPT !.conn = IF first THEN "first" ELSE "second"]
    /\ accounts' = Created(accounts, y.create)
    /\ UNCHANGED << now, sessions, last_cleanup, resp, ghost, handlers, active_sessions >>

\* SecureBBSServer.start accepts the connection, and BBSSession.run runs up to the
\* first recv_line
ShareAccept(first) ==
    /\ Share(first).pc = "none"
    /\ LET check == is_rate_limited(rl, SocketAddr, now)
           k     == NewBBSSession(now, IF first THEN 1 ELSE 2)
           y     == [SocketContext(k, "salt1") EXCEPT !.rl = check.rl]
       IN  ShareStep(first,
                     IF check.limited THEN close(y) ELSE login_sequence(y),
                     "socket_accept")

\* recv_line returns a line of the client, stripped, and the thread runs on
ShareReceive(first, line) ==
    /\ Receiving(Share(first))
    /\ now - Share(first).waiting_since <= recv_timeout
    /\ ShareStep(first,
                 resume(SocketContext([Share(first) EXCEPT !.last_activity = now], "salt1"),
                        strip(line)),
                 "socket_receive")

\* time.sleep(5) of main_menu returns
ShareWake(first) ==
    /\ Share(first).pc = "sleep"
    /\ now >= Share(first).wake
    /\ ShareStep(first, main_menu(SocketContext(Share(first), "salt1")), "socket_wake")

InitShare == InitWith({ Registered(Bob, GoodPassword) })

NextShare ==
    \/ \E first \in BOOLEAN : ShareAccept(first)
    \/ \E first \in BOOLEAN : \E line \in ShareTyped(Share(first)) :
          /\ Len(CommandSamples(SocketAddr)) < MaxShareCommands
          /\ ShareReceive(first, line)
    \/ \E first \in BOOLEAN : ShareWake(first)
    \/ \E t \in ShareTimes : Tick(t)

SpecShare == InitShare /\ [][NextShare]_vars

(***************************************************************************)
(* C36: for every address the number of command samples recorded in a      *)
(* trailing window of 60 s never exceeds 30, also when sessions that share *)
(* the address interleave their is_rate_limited and their record_command.  *)
(***************************************************************************)
C36_WindowBounded ==
    \A a \in Addrs :
        CountRecent(CommandsOf(rl, a), now, COMMAND_WINDOW) <= MAX_COMMANDS_PER_MINUTE

\* between a check and the record_command it allowed no other session of the
\* address records: one session alone never exceeds the limit
C36_WindowBoundedAlone ==
    peer.pc = "none" => C36_WindowBounded


(***************************************************************************)
(* SpecIsolate: two web connections of one address, one that logs in and   *)
(* one that fails, and the limiter calls made for a second address         *)
(***************************************************************************)
OtherAddr == "10.0.0.2"

MaxIsolateInputs == 15

MaxOtherSamples == 1

\* what the user of connection c types at the prompt the session is at: the
\* first knows the password, the second does not
IsolateTyped(c, s) ==
    CASE s.current_menu = "login" ->
            IF s.login_step = "username" THEN { Bob }
            ELSE IF s.login_step = "password"
            THEN IF c = "c1" THEN { GoodPassword } ELSE { OtherPassword }
            ELSE IF s.login_step = "register_offer" THEN { No }
            ELSE { Empty }
      [] s.current_menu = "main" -> { TimeLower }
      [] OTHER -> { Empty }

InitIsolate == InitWith({ Registered(Bob, GoodPassword) })

NextIsolate ==
    \/ \E c \in Conns, i \in Texts, salt \in Salts :
          /\ Len(CommandSamples(AddrOf(c))) < MaxIsolateInputs
          /\ i \in (IF c \in DOMAIN sessions THEN IsolateTyped(c, sessions[c])
                    ELSE { Empty })
          /\ ProcessInput(c, i, salt, 0, FALSE)
    \/ Len(CommandSamples(OtherAddr)) < MaxOtherSamples /\ RecordCommand(OtherAddr)
    \/ /\ Len(FailureSamples(OtherAddr)) < MAX_LOGIN_ATTEMPTS
       /\ RecordLoginAttempt(OtherAddr, FALSE)
    \/ IsRateLimited(OtherAddr)

SpecIsolate == InitIsolate /\ [][NextIsolate]_vars

\* lockout_until of the address, NULL when it has none
LockoutOf(r, a) == IF a \in DOMAIN r.lockouts THEN r.lockouts[a] ELSE NULL

\* a step made for address a leaves what the limiter holds for the other
\* addresses, and what is_rate_limited returns for them, as it was
C37_IsolationStep ==
    \A a, b \in Addrs :
        ev'.addr = a /\ b # a =>
            /\ CommandsOf(rl', b) = CommandsOf(rl, b)
            /\ FailuresOf(rl', b) = FailuresOf(rl, b)
            /\ LockoutOf(rl', b) = LockoutOf(rl, b)
            /\ is_rate_limited(rl', b, now).limited = is_rate_limited(rl, b, now).limited

\* an input of a session whose address is locked out is answered with the notice,
\* whether the session is authenticated or not
C37_SharedStep ==
    \A c \in Conns :
        /\ ev'.kind = "input"
        /\ ev'.conn = c
        /\ LockedOut(rl, AddrOf(c), now)
        => /\ ev'.limited
           /\ resp' = Response("rate_limit_exceeded", sessions'[c].current_menu)

(***************************************************************************)
(* C37: the state of the rate limiter is kept per address: record_command, *)
(* record_login_attempt and is_rate_limited for an address a leave the     *)
(* windows and the lockout of every other address b, and so the result of  *)
(* is_rate_limited(b), unchanged; a lockout of a limits every session of   *)
(* address a, the authenticated ones included.                             *)
(***************************************************************************)
C37_IsolatedPerAddress == [][C37_IsolationStep /\ C37_SharedStep]_vars

\* an authenticated session is throttled by the lockout that the failures of the
\* other connection of its address set, while the second address has samples of
\* its own
C37_Witness ==
    /\ ev.kind = "input"
    /\ ev.limited
    /\ sessions[ev.conn].authenticated
    /\ LockedOut(rl, AddrOf(ev.conn), now)
    /\ CommandsOf(rl, OtherAddr) # << >>
    /\ FailuresOf(rl, OtherAddr) # << >>


(***************************************************************************)
(* SpecArea: one user who selects areas, the read-only one among them,     *)
(* asks to post from the menu and from the list, and types area numbers    *)
(* into a composition                                                      *)
(***************************************************************************)
AreaTyped(s) ==
    CASE s.current_menu = "login" ->
            IF s.login_step = "username" THEN { Bob }
            ELSE IF s.login_step = "password" THEN { GoodPassword }
            ELSE { Empty }
      [] s.current_menu = "main" -> { MessagesKey }
      [] s.current_menu = "messages" ->
            IF s.message_state = "post"
            THEN IF s.temp_message.step = "body" THEN { AreaFour, EndLower }
                 ELSE { AreaFour, CancelLower }
            ELSE IF s.post_continue \/ s.reading_message THEN { Empty }
            ELSE IF s.message_state = "view" THEN { PostKey }
            ELSE { PostKey, ReadKey, AreaTwo, AreaFour }
      [] OTHER -> { Empty }

MaxAreaInputs == 12

InitArea == InitWith({ Registered(Bob, GoodPassword) })

NextArea ==
    \E i \in Texts, salt \in Salts :
        /\ Len(CommandSamples(AddrOf("c1"))) < MaxAreaInputs
        /\ i \in (IF "c1" \in DOMAIN sessions THEN AreaTyped(sessions["c1"])
                  ELSE { Empty })
        /\ ProcessInput("c1", i, salt, 0, FALSE)

SpecArea == InitArea /\ [][NextArea]_vars

\* the areas a message can be posted to
WritableAreas == { "General", "Gaming", "Technical" }

\* every row of messages is in a writable area
C38_RowsWritable ==
    \A k \in 1..Len(db.messages) : db.messages[k].message_area \in WritableAreas

\* a composition begins in a writable area, and the area stays as it is while the
\* composition lasts
C38_AreaStep ==
    \A c \in Conns :
        /\ CompositionBegins(c) => sessions'[c].message_area \in WritableAreas
        /\ Composing(c) /\ c \in DOMAIN sessions' =>
              sessions'[c].message_area = sessions[c].message_area

(***************************************************************************)
(* C38: no message is ever stored in the read-only area: each row inserted *)
(* into messages has area General, Gaming or Technical, never              *)
(* Announcements, because a composition is entered only while the selected *)
(* area is not Announcements and the selected area does not change during  *)
(* a composition.                                                          *)
(***************************************************************************)
C38_NoneInReadOnly == []C38_RowsWritable /\ [][C38_AreaStep]_vars

\* a message whose subject and body are the number of the read-only area has been
\* stored, and a later request to post in the read-only area has been refused
C38_Witness ==
    /\ Len(db.messages) = 1
    /\ db.messages[1].subject = AreaFour
    /\ db.messages[1].body = AreaFour
    /\ db.messages[1].message_area \in WritableAreas
    /\ "c1" \in DOMAIN sessions
    /\ sessions["c1"].message_area = "Announcements"
    /\ resp.output \in { "read_only", "read_only_continue" }


\* the limits sanitize_text is called with: none, and that of process_input
SanitizeLimits == { 0, MAX_INPUT }

\* sanitize_text of a text it has returned is that text
Idempotent(text) ==
    \A n \in SanitizeLimits :
        sanitize_text(sanitize_text(text, n), n) = sanitize_text(text, n)

\* html.escape leaves the character as it is
Plain(c) == EscapeChar(c) = << c >>

(***************************************************************************)
(* C39: sanitize_text is idempotent: for every text s and limit n,         *)
(* sanitize_text(sanitize_text(s, n), n) = sanitize_text(s, n), so that a  *)
(* text sanitized in process_input and again in a handler is stored as one *)
(* sanitization of the input gives it.                                     *)
(***************************************************************************)
C39_SanitizeIdempotent == ev.kind = "sanitize_text" => Idempotent(ev.text)

\* the same for the texts that hold no character html.escape replaces
C39_SanitizeIdempotentPlain ==
    /\ ev.kind = "sanitize_text"
    /\ \A i \in 1..Len(ev.text) : Plain(ev.text[i])
    => Idempotent(ev.text)


(***************************************************************************)
(* SpecTyped: the first connection registers a user with a password it     *)
(* types, the second logs in as that user with a password it types         *)
(***************************************************************************)
TypedPasswords == { GoodPassword, PaddedPassword, OtherPassword }

\* what the user of connection c types at the prompt the session is at; the
\* first stops when it has registered, the second after one password
TypedAt(c, s) ==
    CASE s.current_menu = "login" ->
            IF s.login_step = "username" THEN { Amy }
            ELSE IF s.login_step = "password"
            THEN IF c = "c1" THEN { OtherPassword } ELSE TypedPasswords
            ELSE IF s.login_step = "register_offer"
            THEN IF c = "c1" THEN { Yes } ELSE { }
            ELSE { Empty }
      [] s.current_menu = "register" ->
            IF s.registration_state.step = "password" THEN TypedPasswords
            ELSE { Empty }
      [] OTHER -> { }

MaxTypedInputs == 11

\* the place of the registration password among the inputs of the first connection:
\* banner, username, password, offer, registration password
TypedPlace == 5

InitTyped == InitWith({ NewDatabase })

NextTyped ==
    \E c \in Conns, i \in Texts, salt \in Salts :
        /\ Len(CommandSamples(AddrOf(c))) < MaxTypedInputs
        /\ i \in (IF c \in DOMAIN sessions THEN TypedAt(c, sessions[c]) ELSE { Empty })
        /\ ProcessInput(c, i, salt, MaxTypedInputs, FALSE)

SpecTyped == InitTyped /\ [][NextTyped]_vars

\* the input connection c has just typed
LastTyped(c) == ghost[c].hist[Len(ghost[c].hist)].input

\* the password the first connection typed when it registered the user
RegisteredTyped == ghost["c1"].hist[TypedPlace].input

\* the second connection has just been let in by the password check
LoggedInBySecond ==
    /\ ev.kind = "input"
    /\ ev.conn = "c2"
    /\ ev.verify.called
    /\ ev.verify.result
    /\ sessions["c2"].authenticated

(***************************************************************************)
(* C40: for a user registered through a web session by typing the password *)
(* p, a later web login as that user with the typed input q authenticates  *)
(* only if q = p: the sanitisation of the input before the password check  *)
(* never makes two different typed passwords equivalent.                   *)
(***************************************************************************)
C40_ExactTypedPassword == LoggedInBySecond => LastTyped("c2") = RegisteredTyped

\* the login authenticates only with a password whose sanitized text is that of
\* the registered one
C40_ExactSanitizedPassword ==
    LoggedInBySecond => sanitize_input(LastTyped("c2")) = sanitize_input(RegisteredTyped)

=============================================================================
